---- MODULE Spec2Model ----
(***************************************************************************)
(* Cross-widget filter synchronisation between the embedded Power BI       *)
(* report (ReportEmbedView) and the ArcGIS map (ArcGISMap), through the    *)
(* shared MapReportFilterContext store.                                    *)
(*                                                                         *)
(* JavaScript strings are sequences of one-character strings; a field or   *)
(* column name is kept as one token.  A filter value is a tagged record    *)
(* (string or number), so that 7 and "7" stay different values.            *)
(***************************************************************************)
EXTENDS Integers, Sequences, FiniteSets, TLC

\* ------------------------------------------------------------------ bounds
\* user interactions (selection, slicer change, map click) per behaviour
MaxUserEvents == 2
\* the same, in the specification that ranges over mapping tables and web maps
MaxUserEventsAnyConfig == 1
\* the same, in the specification of a single interaction
MaxUserEventsOnce == 1
\* data points carried by one dataSelected event
MaxDataPoints == 1
\* zoomToFilteredArea invocations in flight at once
MaxZoomTasks == 2
\* pollActiveFilters invocations in flight at once
MaxPolls == 1
\* click hit-tests in flight at once
MaxClicks == 1
\* setFilters / clearFilters calls kept in the log of writes
MaxWriteLog == 3
\* pointer-move / pointer-leave events
MaxHoverEvents == 2
\* hover hit-tests in flight at once
MaxHoverTests == 1
\* user interactions in the hover configuration and in the timed configuration
MaxUserEventsHover == 1
MaxUserEventsTimed == 1
\* milliseconds per clock tick, and the ticks the clock counts up to
TickMs == 250
MaxTicks == 3

\* ------------------------------------------------------------------ values
EMOJI == "@"
SPACE == " "
QUOTE == "'"

Str(s) == [t |-> "string", s |-> s, n |-> 0]
Num(n) == [t |-> "number", s |-> <<>>, n |-> n]
Undefined == [t |-> "undefined", s |-> <<>>, n |-> 0]
Null == [t |-> "null", s |-> <<>>, n |-> 0]

IsString(v) == v.t = "string"
IsNumber(v) == v.t = "number"
\* value !== undefined && value !== null
IsPresent(v) == v.t # "undefined" /\ v.t # "null"

Range(s) == {s[i] : i \in 1..Len(s)}

\* const x = v; Body(x): v is computed once
Const(v, Body(_)) == CHOOSE r \in {Body(x) : x \in {v}} : TRUE

\* first index of s satisfying Test, 0 when there is none (Array.prototype.find)
FindIndex(s, Test(_)) ==
    IF \E i \in 1..Len(s) : Test(s[i])
    THEN CHOOSE i \in 1..Len(s) : Test(s[i]) /\ \A j \in 1..(i - 1) : ~Test(s[j])
    ELSE 0

RECURSIVE NatToStr(_)
NatToStr(n) ==
    LET d == <<"0", "1", "2", "3", "4", "5", "6", "7", "8", "9">>[(n % 10) + 1]
    IN  IF n < 10 THEN <<d>> ELSE NatToStr(n \div 10) \o <<d>>

\* `${v}` / v.toString() of a number
NumToStr(n) == IF n < 0 THEN <<"-">> \o NatToStr(0 - n) ELSE NatToStr(n)

\* v.toString() of a string | number value
ToStr(v) == IF IsNumber(v) THEN NumToStr(v.n) ELSE v.s

\* ------------------------------------------------- filter-mapping.ts
IsEmojiChar(c) == c = EMOJI

RECURSIVE DropLeadingEmoji(_)
DropLeadingEmoji(s) ==
    IF s # <<>> /\ IsEmojiChar(Head(s)) THEN DropLeadingEmoji(Tail(s)) ELSE s

RECURSIVE TrimStart(_)
TrimStart(s) == IF s # <<>> /\ Head(s) = SPACE THEN TrimStart(Tail(s)) ELSE s

RECURSIVE TrimEnd(_)
TrimEnd(s) ==
    IF s # <<>> /\ s[Len(s)] = SPACE THEN TrimEnd(SubSeq(s, 1, Len(s) - 1)) ELSE s

Trim(s) == TrimEnd(TrimStart(s))

stripEmojiPrefix(raw) ==
    IF ~IsString(raw) THEN raw ELSE Str(Trim(DropLeadingEmoji(raw.s)))

\* mapping.transformValue ? transform(v) : v
ApplyTransform(transform, v) ==
    IF transform = "stripEmojiPrefix" THEN stripEmojiPrefix(v) ELSE v

NoLayerTitle == ""

Mapping(table, column, layerTitle, field, transform) ==
    [powerbiTable |-> table, powerbiColumn |-> column,
     arcgisLayerTitle |-> layerTitle, arcgisField |-> field,
     transformValue |-> transform]

FIELD_MAPPINGS ==
    << Mapping("NC_Permits", "County Lebel", "NC_Permits_Cleaned", "County",
               "stripEmojiPrefix"),
       Mapping("NC_Permits", "County Lebel", "NC_Dentists_All merged", "Lebel",
               "stripEmojiPrefix"),
       Mapping("NC_Permits", "County Lebel", "New overlay county", "County",
               "stripEmojiPrefix"),
       Mapping("NC_Permits", "County Lebel",
               "North Carolina State and County Boundary Polygons", "County",
               "stripEmojiPrefix") >>

\* A table of the same FieldMapping type in which a layer-less row and a
\* layer-specific row of another report column share one map field.
SharedFieldMappings ==
    << Mapping("NC_Permits", "County Lebel", NoLayerTitle, "County",
               "stripEmojiPrefix"),
       Mapping("NC_Permits", "County", "New overlay county", "County", "none") >>

MappingTables == {FIELD_MAPPINGS, SharedFieldMappings}

\* A table of the same FieldMapping type in which every layer filters on the
\* field County and the dentists layer, whose field is Lebel, has a row of its
\* own.
OverlapFieldMappings ==
    << Mapping("NC_Permits", "County Lebel", NoLayerTitle, "County",
               "stripEmojiPrefix"),
       Mapping("NC_Permits", "County Lebel", "NC_Dentists_All merged", "Lebel",
               "stripEmojiPrefix") >>

\* ------------------------------------------------------------ configuration
VARIABLES
    fieldMappings,       \* the FieldMapping table in force (immutable)
    webmapLayers,        \* webmap.layers: the layer tree of the web map (immutable)
    activeFilters,       \* MapReportFilterProvider: useState<FilterEntry[]>
    filtersDirty,        \* activeFilters was set and the effects have not run yet
    status,              \* ArcGISMap: useState "loading" | "ready"
    statusDirty,         \* status was set and the map effect has not run yet
    reportRef,           \* reportRef.current is the embedded report
    pageFilters,         \* report widget: the active page's filters
    reportFilters,       \* report widget: report-level filters last accepted
    reportCalls,         \* report.setFilters / removeFilters promises in flight
    renderedTimerRef,    \* handleRendered's 500 ms timer is armed
    polls,               \* pollActiveFilters invocations in flight (awaiting the widget)
    selectedSincePoll,   \* a dataSelected event wrote the store while they were in flight
    layerViewFilter,     \* map widget: FeatureLayerView.filter of each layer
    layerViewCalls,      \* view.whenLayerView(fl).then(set filter) in flight
    viewExtent,          \* map widget: the extent of the last goTo issued
    highlightHandlesRef, \* highlightHandlesRef.current: live selection highlights
    zoomTasks,           \* zoomToFilteredArea invocations in flight
    clicks,              \* click handlers awaiting view.hitTest
    userEvents,          \* user interactions left
    lastWritten,         \* argument of the latest setFilters / clearFilters call
    writeLog,            \* arguments of the first setFilters / clearFilters calls
    hoverTimeout,        \* setupInteractions: the 60 ms hover timer is armed
    hoverTests,          \* hover callbacks awaiting view.hitTest
    hoverViews,          \* hover callbacks awaiting view.whenLayerView: their graphic
    hoverHighlightRef,   \* hoverHighlightRef.current: the hovered graphic, if any
    hoverHighlights,     \* handles flv.highlight(graphic) returned and nobody removed
    hoverInfo,           \* ArcGISMap: useState hoverInfo (the tooltip)
    hoverEvents,         \* pointer events left
    now,                 \* the clock, in ticks
    armedAt,             \* the time at which the rendered timer was armed
    lastRendered,        \* the time of the latest "rendered" event
    timerFires,          \* runs of the timer callback since the latest "rendered"
    reportApply,         \* latest run of the report-side effect: input and commands
    mapApply,            \* latest run of the map-side effect: input and commands
    predicateLayers      \* ids of the layers that ever got a "set filter" call

vars ==
    << fieldMappings, webmapLayers, activeFilters, filtersDirty, status,
       statusDirty, reportRef, pageFilters, reportFilters, reportCalls,
       renderedTimerRef, polls, selectedSincePoll, layerViewFilter, layerViewCalls,
       viewExtent, highlightHandlesRef, zoomTasks, clicks, userEvents,
       lastWritten, writeLog, hoverTimeout, hoverTests, hoverViews,
       hoverHighlightRef, hoverHighlights, hoverInfo, hoverEvents, now, armedAt,
       lastRendered, timerFires, reportApply, mapApply, predicateLayers >>

\* ------------------------------------------------------------ web map layers
FeatureLayer(id, title, rendererType, featureReduction) ==
    [type |-> "feature", id |-> id, title |-> title,
     rendererType |-> rendererType, featureReduction |-> featureReduction,
     layers |-> <<>>]

GroupLayer(layers) ==
    [type |-> "group", id |-> "", title |-> "group", rendererType |-> "none",
     featureReduction |-> FALSE, layers |-> layers]

TileLayer ==
    [type |-> "tile", id |-> "", title |-> "tiles", rendererType |-> "none",
     featureReduction |-> FALSE, layers |-> <<>>]

\* heat-mapped permits, polygon overlay, clustered dentists inside a group
WebMapHeatCluster ==
    << FeatureLayer("permits", "NC_Permits_Cleaned", "heatmap", FALSE),
       GroupLayer(<< FeatureLayer("overlay", "New overlay county", "simple", FALSE),
                     FeatureLayer("dentists", "NC_Dentists_All merged", "simple",
                                  TRUE) >>),
       TileLayer >>

\* two filterable layers with different field names, heat-mapped permits
WebMapTwoFilterable ==
    << FeatureLayer("overlay", "New overlay county", "simple", FALSE),
       FeatureLayer("dentists", "NC_Dentists_All merged", "none", FALSE),
       FeatureLayer("permits", "NC_Permits_Cleaned", "heatmap", TRUE) >>

WebMaps == {WebMapHeatCluster, WebMapTwoFilterable}

\* the deployed web map after its permits layer was given another title, for
\* which the mapping table has no row
WebMapRenamedLayer ==
    << FeatureLayer("permits", "NC_Permits_2024", "heatmap", FALSE),
       GroupLayer(<< FeatureLayer("overlay", "New overlay county", "simple", FALSE),
                     FeatureLayer("dentists", "NC_Dentists_All merged", "simple",
                                  TRUE) >>),
       TileLayer >>

RECURSIVE collectFeatureLayers(_)
collectFeatureLayers(layers) ==
    IF layers = <<>> THEN <<>>
    ELSE LET layer == Head(layers)
             here == IF layer.type = "feature" THEN <<layer>>
                     ELSE IF layer.type = "group"
                          THEN collectFeatureLayers(layer.layers)
                          ELSE <<>>
         IN  here \o collectFeatureLayers(Tail(layers))

\* isVisualizationLayer without the featureReduction check
isVisualizationLayerHeatmapOnly(fl) == fl.rendererType = "heatmap"

isVisualizationLayer(fl) ==
    IF fl.rendererType = "heatmap" THEN TRUE
    ELSE IF fl.featureReduction THEN TRUE
    ELSE FALSE

AllFeatureLayers == collectFeatureLayers(webmapLayers)

IsFilterable(fl) == ~isVisualizationLayer(fl)

filterableLayers == SelectSeq(AllFeatureLayers, IsFilterable)

LayerIds == {"permits", "overlay", "dentists"}

\* operationalLayerIdsRef.current after load
operationalLayerIds == {AllFeatureLayers[i].id : i \in 1..Len(AllFeatureLayers)}

\* ------------------------------------------------------------ buildWhereClause
RECURSIVE EscapeQuotes(_)
EscapeQuotes(s) ==
    IF s = <<>> THEN <<>>
    ELSE (IF Head(s) = QUOTE THEN <<QUOTE, QUOTE>> ELSE <<Head(s)>>)
         \o EscapeQuotes(Tail(s))

\* the literal without the replace(/'/g, "''")
SqlLiteralUnescaped(v) ==
    IF IsNumber(v) THEN NumToStr(v.n) ELSE <<QUOTE>> \o ToStr(v) \o <<QUOTE>>

\* typeof v === "number" ? v : `'${v.toString().replace(/'/g, "''")}'`
SqlLiteral(v) ==
    Const(v, LAMBDA x :
        IF IsNumber(x) THEN NumToStr(x.n)
        ELSE <<QUOTE>> \o Const(ToStr(x), EscapeQuotes) \o <<QUOTE>>)

RECURSIVE Join(_, _)
Join(strings, sep) ==
    IF strings = <<>> THEN <<>>
    ELSE IF Len(strings) = 1 THEN strings[1]
    ELSE strings[1] \o sep \o Join(Tail(strings), sep)

MappingFor(layer, filter) ==
    FindIndex(fieldMappings,
              LAMBDA m : /\ m.powerbiTable = filter.powerbiTable
                         /\ m.powerbiColumn = filter.powerbiColumn
                         /\ (m.arcgisLayerTitle = NoLayerTitle
                             \/ m.arcgisLayerTitle = layer.title))

\* the clauses one filter entry adds for a layer: none or one
ClausesOf(layer, filter) ==
    LET mapping == MappingFor(layer, filter)
    IN  IF mapping = 0 THEN <<>>
        ELSE LET fieldName == fieldMappings[mapping].arcgisField
                 transform == fieldMappings[mapping].transformValue
             IN  Const([i \in 1..Len(filter.values) |->
                           ApplyTransform(transform, filter.values[i])],
                       LAMBDA cleanValues :
                 IF Len(cleanValues) = 1
                 THEN << <<fieldName>> \o <<SPACE, "=", SPACE>>
                         \o SqlLiteral(cleanValues[1]) >>
                 ELSE IF Len(cleanValues) > 1
                 THEN << <<fieldName>> \o <<SPACE, "I", "N", SPACE, "(">>
                         \o Join([i \in 1..Len(cleanValues) |->
                                     SqlLiteral(cleanValues[i])], <<",", SPACE>>)
                         \o <<")">> >>
                 ELSE <<>>)

RECURSIVE AllClauses(_, _)
AllClauses(layer, filters) ==
    IF filters = <<>> THEN <<>>
    ELSE ClausesOf(layer, Head(filters)) \o AllClauses(layer, Tail(filters))

NoWhere == <<>>

\* null is NoWhere: a clause is never the empty string
buildWhereClause(layer, filters) ==
    Const(AllClauses(layer, filters), LAMBDA clauses :
        IF Len(clauses) > 0
        THEN Join(clauses, <<SPACE, "A", "N", "D", SPACE>>)
        ELSE NoWhere)

\* ------------------------------------------------------------ Filter Store
FilterEntry(field, table, column, values, source) ==
    [field |-> field, powerbiTable |-> table, powerbiColumn |-> column,
     values |-> values, source |-> source]

\* a store that merges a write into the previous snapshot
setActiveFiltersMerging(prev, filters) == prev \o filters

\* a store that keeps the entries of the previous snapshot whose source is not
\* that of the written entries
setActiveFiltersKeepingOtherSource(prev, filters) ==
    SelectSeq(prev, LAMBDA f : \A i \in 1..Len(filters) : filters[i].source # f.source)
    \o filters

\* setActiveFilters(filters): the state after the update
setActiveFilters(prev, filters) == filters

\* setFilters(filters) of the provider; React re-renders the consumers later
setFilters(filters) ==
    /\ activeFilters' = setActiveFilters(activeFilters, filters)
    /\ filtersDirty' = TRUE
    /\ lastWritten' = filters
    /\ writeLog' = IF Len(writeLog) < MaxWriteLog THEN Append(writeLog, filters)
                   ELSE writeLog

clearFilters == setFilters(<<>>)

NoWrite == UNCHANGED <<activeFilters, filtersDirty, lastWritten, writeLog>>

\* ------------------------------------------------------------ report extractor
\* pushFilter dropping the triplets of a column that has no mapping row
pushFilterMappedOnly(filters, table, column, value) ==
    LET mapping == FindIndex(fieldMappings,
                             LAMBDA m : /\ m.powerbiTable = table
                                        /\ m.powerbiColumn = column)
        field == IF mapping # 0 THEN fieldMappings[mapping].arcgisField ELSE column
        existing == FindIndex(filters, LAMBDA f : f.field = field)
    IN  IF mapping = 0 THEN filters
        ELSE IF existing # 0
        THEN IF value \in Range(filters[existing].values)
             THEN filters
             ELSE [filters EXCEPT ![existing].values = Append(@, value)]
        ELSE Append(filters, FilterEntry(field, table, column, <<value>>, "powerbi"))

\* pushFilter without the includes() test on the values of the existing entry
pushFilterAppending(filters, table, column, value) ==
    LET mapping == FindIndex(fieldMappings,
                             LAMBDA m : /\ m.powerbiTable = table
                                        /\ m.powerbiColumn = column)
        field == IF mapping # 0 THEN fieldMappings[mapping].arcgisField ELSE column
        existing == FindIndex(filters, LAMBDA f : f.field = field)
    IN  IF existing # 0
        THEN [filters EXCEPT ![existing].values = Append(@, value)]
        ELSE Append(filters, FilterEntry(field, table, column, <<value>>, "powerbi"))

pushFilter(filters, table, column, value) ==
    LET mapping == FindIndex(fieldMappings,
                             LAMBDA m : /\ m.powerbiTable = table
                                        /\ m.powerbiColumn = column)
        field == IF mapping # 0 THEN fieldMappings[mapping].arcgisField ELSE column
        existing == FindIndex(filters, LAMBDA f : f.field = field)
    IN  IF existing # 0
        THEN IF value \in Range(filters[existing].values)
             THEN filters
             ELSE [filters EXCEPT ![existing].values = Append(@, value)]
        ELSE Append(filters, FilterEntry(field, table, column, <<value>>, "powerbi"))

NoName == ""

\* one identity item or one values item of a data point
\* (value is id.equals, or v.value ?? v.formattedValue)
Item(table, column, value, formattedValue) ==
    [table |-> table, column |-> column, value |-> value,
     formattedValue |-> formattedValue]

\* id.equals for an identity item, v.value ?? v.formattedValue for a values item
ItemValue(item, isIdentity) ==
    IF isIdentity \/ IsPresent(item.value) THEN item.value ELSE item.formattedValue

RECURSIVE PushItems(_, _, _)
PushItems(filters, items, isIdentity) ==
    IF items = <<>> THEN filters
    ELSE LET it == Head(items)
             value == ItemValue(it, isIdentity)
             next == IF it.table # NoName /\ it.column # NoName
                        /\ value.t # "undefined"
                     THEN pushFilter(filters, it.table, it.column, value)
                     ELSE filters
         IN  PushItems(next, Tail(items), isIdentity)

RECURSIVE PushDataPoints(_, _)
PushDataPoints(filters, dataPoints) ==
    IF dataPoints = <<>> THEN filters
    ELSE LET dp == Head(dataPoints)
         IN  PushDataPoints(PushItems(PushItems(filters, dp.identity, TRUE),
                                      dp.values, FALSE),
                            Tail(dataPoints))

\* the filters a dataSelected event with these data points collects
SelectedFilters(dataPoints) == PushDataPoints(<<>>, dataPoints)

\* the filters a poll collects from the page filters it read
RECURSIVE PushValues(_, _, _, _)
PushValues(filters, table, column, values) ==
    IF values = <<>> THEN filters
    ELSE PushValues(IF IsPresent(Head(values))
                    THEN pushFilter(filters, table, column, Head(values))
                    ELSE filters,
                    table, column, Tail(values))

RECURSIVE PushPageFilters(_, _)
PushPageFilters(filters, pf) ==
    IF pf = <<>> THEN filters
    ELSE LET f == Head(pf)
             next == IF f.filterType # "Basic" THEN filters
                     ELSE IF f.table = NoName \/ f.column = NoName
                             \/ Len(f.values) = 0
                          THEN filters
                          ELSE PushValues(filters, f.table, f.column, f.values)
         IN  PushPageFilters(next, Tail(pf))

PolledFilters(pf) == PushPageFilters(<<>>, pf)

\* ------------------------------------------------------------ map extractor
\* the click handler applying every row, whatever its layer title
RECURSIVE ClickEntriesAnyLayer(_, _, _)
ClickEntriesAnyLayer(mappings, layerTitle, attrs) ==
    IF mappings = <<>> THEN <<>>
    ELSE LET mapping == Head(mappings)
             rest == ClickEntriesAnyLayer(Tail(mappings), layerTitle, attrs)
             value == attrs[mapping.arcgisField]
         IN  IF IsPresent(value)
             THEN <<FilterEntry(mapping.arcgisField, mapping.powerbiTable,
                                mapping.powerbiColumn, <<value>>, "arcgis")>>
                  \o rest
             ELSE rest

\* the entries built from the first operational hit (click handler, newFilters)
RECURSIVE ClickEntries(_, _, _)
ClickEntries(mappings, layerTitle, attrs) ==
    IF mappings = <<>> THEN <<>>
    ELSE LET mapping == Head(mappings)
             rest == ClickEntries(Tail(mappings), layerTitle, attrs)
         IN  IF mapping.arcgisLayerTitle # NoLayerTitle
                /\ mapping.arcgisLayerTitle # layerTitle
             THEN rest
             ELSE LET value == attrs[mapping.arcgisField]
                  IN  IF IsPresent(value)
                      THEN <<FilterEntry(mapping.arcgisField, mapping.powerbiTable,
                                         mapping.powerbiColumn, <<value>>,
                                         "arcgis")>> \o rest
                      ELSE rest

\* response.results filtered to graphics that have a layer, registered or not
OperationalHitsAnyGraphic(results) ==
    SelectSeq(results, LAMBDA r : r.type = "graphic" /\ r.layerId # NoName)

\* response.results filtered to graphics of registered operational layers
OperationalHits(results) ==
    SelectSeq(results, LAMBDA r : /\ r.type = "graphic"
                                  /\ r.layerId # NoName
                                  /\ r.layerId \in operationalLayerIds)

\* ------------------------------------------------------------ inputs
ValEmoji == Str(<<EMOJI, SPACE, "a", QUOTE>>)
ValPlain == Str(<<"a", QUOTE>>)
ValNum == Num(12)
ValPadded == Str(<<"a", QUOTE, SPACE>>)

\* identity items (id.equals) of the data points of the report
IdentityItems == {Item("NC_Permits", "County Lebel", ValEmoji, Undefined)}

\* the same for a report whose visuals also expose a second value, an unmapped
\* column and an identity without a table
AnyIdentityItems ==
    IdentityItems
    \cup { Item("NC_Permits", "County Lebel", ValPlain, Undefined),
           Item("NC_Permits", "State", ValPlain, Undefined),
           Item(NoName, "County Lebel", ValPlain, Undefined) }

\* values items (v.value, v.formattedValue) of the data points of the report
ValuesItems == {}

\* a numeric value of the mapped column, and a value of the column County, for
\* which the deployed table has no row
AnyValuesItems ==
    { Item("NC_Permits", "County Lebel", ValNum, Str(<<"1", "2">>)),
      Item("NC_Permits", "County", ValPlain, Undefined) }

DataPoint(identity, values) == [identity |-> identity, values |-> values]

\* a data point carries at most one identity item and at most one values item
DataPoints(identityItems, valuesItems) ==
    {DataPoint(i, v) : i \in {<<>>} \cup {<<x>> : x \in identityItems},
                       v \in {<<>>} \cup {<<x>> : x \in valuesItems}}

SeqsUpTo(S, n) == UNION {[1..k -> S] : k \in 0..n}

\* event.detail of a dataSelected event: absent, or its dataPoints
SelectionEvents(identityItems, valuesItems) ==
    {[detail |-> FALSE, dataPoints |-> <<>>]}
    \cup {[detail |-> TRUE, dataPoints |-> dps] :
            dps \in SeqsUpTo(DataPoints(identityItems, valuesItems), MaxDataPoints)}

PageFilter(filterType, table, column, values) ==
    [filterType |-> filterType, table |-> table, column |-> column,
     values |-> values]

\* what the user can leave in the active page's filters
PageFilterSets ==
    { <<>>,
      <<PageFilter("Basic", "NC_Permits", "County Lebel",
                   <<ValEmoji, Null, ValPlain, ValEmoji>>)>>,
      <<PageFilter("Advanced", "NC_Permits", "County Lebel", <<ValPlain>>),
        PageFilter("Basic", NoName, "County Lebel", <<ValPlain>>),
        PageFilter("Basic", "NC_Permits", "County Lebel", <<Null>>)>> }

NoAttributes == [present |-> FALSE, at |-> [County |-> Undefined, Lebel |-> Undefined]]

Attributes(county, lebel) == [present |-> TRUE, at |-> [County |-> county, Lebel |-> lebel]]

\* graphic.attributes of the features a click can hit
AttributeSets == {NoAttributes, Attributes(ValPlain, Undefined)}

\* the same with a null, a numeric and a blank-padded attribute value
AnyAttributeSets ==
    AttributeSets \cup {Attributes(Null, ValNum), Attributes(ValPadded, Undefined)}

GraphicHit(layerId, title, attributes) ==
    [type |-> "graphic", layerId |-> layerId, title |-> title,
     attributes |-> attributes]

BaseMapHit == GraphicHit("basemap", "World Topographic Map", NoAttributes)

FeatureHits(attributeSets) ==
    {GraphicHit(AllFeatureLayers[i].id, AllFeatureLayers[i].title, a) :
        i \in 1..Len(AllFeatureLayers), a \in attributeSets}

\* response.results of view.hitTest
HitTestResults(attributeSets) ==
    {<<>>, <<BaseMapHit>>}
    \cup {<<h>> : h \in FeatureHits(attributeSets)}
    \cup {<<BaseMapHit, h>> : h \in FeatureHits(attributeSets)}

InitialExtent == [layer |-> "", where |-> NoWhere]

\* combinedExtent.expand(1.3) of the features of a layer matching a clause
FilteredExtent(layerId, where) == [layer |-> layerId, where |-> where]

\* ------------------------------------------------------------ state machine
cfgVars == <<fieldMappings, webmapLayers>>
storeVars == <<activeFilters, filtersDirty, lastWritten, writeLog>>
reportWidgetVars == <<pageFilters, reportFilters, reportCalls>>
mapWidgetVars ==
    <<layerViewFilter, layerViewCalls, viewExtent, highlightHandlesRef,
      zoomTasks, predicateLayers>>
applyVars == <<reportApply, mapApply>>
hoverVars ==
    <<hoverTimeout, hoverTests, hoverViews, hoverHighlightRef, hoverHighlights,
      hoverInfo, hoverEvents>>
timerVars == <<now, renderedTimerRef, armedAt, lastRendered, timerFires>>

NoGraphic == [layerId |-> NoName, title |-> NoName]
NoHoverInfo == [shown |-> FALSE, layerTitle |-> NoName]

NoReportApply == [ran |-> FALSE, cmds |-> <<>>]
NoMapApply == [ran |-> FALSE, calls |-> {}, goTo |-> FALSE, zoom |-> FALSE]

\* loaded: the report is embedded and has rendered, the mount effects have run
\* and the map has just become ready
InitWith(tables, webmaps, budget, hovers, loaded) ==
    /\ fieldMappings \in tables
    /\ webmapLayers \in webmaps
    /\ activeFilters = <<>>
    /\ filtersDirty = ~loaded
    /\ status = IF loaded THEN "ready" ELSE "loading"
    /\ statusDirty = loaded
    /\ reportRef = loaded
    /\ pageFilters = <<>>
    /\ reportFilters = <<>>
    /\ reportCalls = {}
    /\ renderedTimerRef = loaded
    /\ polls = 0
    /\ selectedSincePoll = FALSE
    /\ layerViewFilter = [l \in LayerIds |-> NoWhere]
    /\ layerViewCalls = {}
    /\ viewExtent = InitialExtent
    /\ highlightHandlesRef = <<>>
    /\ zoomTasks = <<>>
    /\ clicks = 0
    /\ userEvents = budget
    /\ lastWritten = <<>>
    /\ writeLog = <<>>
    /\ hoverTimeout = FALSE
    /\ hoverTests = 0
    /\ hoverViews = {}
    /\ hoverHighlightRef = NoGraphic
    /\ hoverHighlights = 0
    /\ hoverInfo = NoHoverInfo
    /\ hoverEvents = hovers
    /\ now = 0
    /\ armedAt = 0
    /\ lastRendered = 0
    /\ timerFires = 0
    /\ reportApply = NoReportApply
    /\ mapApply = NoMapApply
    /\ predicateLayers = {}

\* the deployed mapping table on a web map with a heat-mapped, a clustered and a
\* filterable layer
Init == InitWith({FIELD_MAPPINGS}, {WebMapHeatCluster}, MaxUserEvents, 0, FALSE)

\* any mapping table on any web map
InitAnyConfig == InitWith(MappingTables, WebMaps, MaxUserEventsAnyConfig, 0, FALSE)

\* the page with overlapping mapping rows and two filterable layers
InitOverlap ==
    InitWith({OverlapFieldMappings}, {WebMapTwoFilterable}, MaxUserEventsAnyConfig,
             0, FALSE)

\* the deployed mapping table on the web map with the renamed layer
InitRenamedLayer ==
    InitWith({FIELD_MAPPINGS}, {WebMapRenamedLayer}, MaxUserEvents, 0, FALSE)

\* the deployed configuration, loaded, with a single user interaction
InitOnce == InitWith({FIELD_MAPPINGS}, {WebMapHeatCluster}, MaxUserEventsOnce, 0, TRUE)

RemoveAt(s, i) == SubSeq(s, 1, i - 1) \o SubSeq(s, i + 1, Len(s))

\* handleRendered leaving an armed timer as it is, so that the timer runs from
\* the first "rendered" event of a burst
handleRenderedLeading ==
    /\ renderedTimerRef' = TRUE
    /\ armedAt' = IF renderedTimerRef THEN armedAt ELSE now
    /\ lastRendered' = now
    /\ timerFires' = 0
    /\ now' = now

\* handleRendered: clear the timer and arm it again; the widget emits "rendered"
\* whenever it has re-rendered
handleRendered ==
    /\ renderedTimerRef' = TRUE
    /\ armedAt' = now
    /\ lastRendered' = now
    /\ timerFires' = 0
    /\ now' = now

\* PowerBIEmbed hands over the embedded report, which renders
Embedded ==
    /\ ~reportRef
    /\ reportRef' = TRUE
    /\ handleRendered
    /\ UNCHANGED <<cfgVars, selectedSincePoll,
                   hoverVars, storeVars, status, statusDirty, reportWidgetVars,
                   polls, mapWidgetVars, clicks, userEvents, applyVars>>

\* loadMapWithApiKey / loadMapWithOAuth reach setStatus("ready")
MapLoaded ==
    /\ status = "loading"
    /\ status' = "ready"
    /\ statusDirty' = TRUE
    /\ UNCHANGED <<cfgVars, selectedSincePoll,
                   hoverVars, storeVars, reportRef, reportWidgetVars,
                   timerVars, polls, mapWidgetVars, clicks, userEvents,
                   applyVars>>

\* handleDataSelected returning without clearing when the event has no data
\* points
handleDataSelectedKeeping(event) ==
    /\ reportRef
    /\ userEvents > 0
    /\ userEvents' = userEvents - 1
    /\ IF ~event.detail THEN NoWrite
       ELSE IF Len(event.dataPoints) = 0 THEN NoWrite
       ELSE LET newFilters == SelectedFilters(event.dataPoints)
            IN  IF Len(newFilters) > 0 THEN setFilters(newFilters) ELSE NoWrite
    /\ selectedSincePoll' =
          (\/ selectedSincePoll
           \/ /\ polls > 0
              /\ event.detail
              /\ Len(event.dataPoints) > 0
              /\ Len(SelectedFilters(event.dataPoints)) > 0)
    /\ UNCHANGED <<cfgVars, hoverVars, status, statusDirty, reportRef, reportWidgetVars,
                   timerVars, polls, mapWidgetVars, clicks, applyVars>>

\* handleDataSelected(event)
handleDataSelected(event) ==
    /\ reportRef
    /\ userEvents > 0
    /\ userEvents' = userEvents - 1
    /\ IF ~event.detail THEN NoWrite
       ELSE IF Len(event.dataPoints) = 0 THEN setFilters(<<>>)
       ELSE LET newFilters == SelectedFilters(event.dataPoints)
            IN  IF Len(newFilters) > 0 THEN setFilters(newFilters) ELSE NoWrite
    /\ selectedSincePoll' =
          (\/ selectedSincePoll
           \/ /\ polls > 0
              /\ event.detail
              /\ \/ Len(event.dataPoints) = 0
                 \/ Len(SelectedFilters(event.dataPoints)) > 0)
    /\ UNCHANGED <<cfgVars, hoverVars, status, statusDirty, reportRef, reportWidgetVars,
                   timerVars, polls, mapWidgetVars, clicks, applyVars>>

\* the report emits dataSelected while the component is mounted on the report
DataSelected ==
    /\ reportRef /\ userEvents > 0
    /\ \E event \in SelectionEvents(IdentityItems, ValuesItems) :
          handleDataSelected(event)

DataSelectedAny ==
    /\ reportRef /\ userEvents > 0
    /\ \E event \in SelectionEvents(AnyIdentityItems, AnyValuesItems) :
          handleDataSelected(event)

\* the user changes a slicer / the filter pane: the page filters change, the
\* report re-renders and emits "rendered"
SlicerChanged ==
    /\ reportRef
    /\ userEvents > 0
    /\ userEvents' = userEvents - 1
    /\ \E pf \in PageFilterSets : pf # pageFilters /\ pageFilters' = pf
    /\ handleRendered
    /\ selectedSincePoll' = FALSE
    /\ UNCHANGED <<cfgVars, hoverVars, storeVars, status, statusDirty, reportRef,
                   reportFilters, reportCalls, polls, mapWidgetVars, clicks,
                   applyVars>>

\* the 500 ms timer fires: pollActiveFilters() runs up to its first await
RenderedTimerFires ==
    /\ renderedTimerRef
    /\ polls < MaxPolls
    /\ renderedTimerRef' = FALSE
    /\ timerFires' = timerFires + 1
    /\ polls' = IF reportRef THEN polls + 1 ELSE polls
    /\ UNCHANGED <<cfgVars, selectedSincePoll,
                   hoverVars, storeVars, status, statusDirty, reportRef,
                   reportWidgetVars, mapWidgetVars, clicks, userEvents, applyVars,
                   now, armedAt, lastRendered>>

\* a poll that clears the store when the page has no filter to collect
PollSettlesClearing ==
    /\ polls > 0
    /\ polls' = polls - 1
    /\ \E r \in {"getPagesRejects", "noActivePage", "getFiltersRejects", "filters"} :
          IF r # "filters" THEN NoWrite
          ELSE IF Len(pageFilters) = 0 THEN clearFilters
          ELSE LET newFilters == PolledFilters(pageFilters)
               IN  IF Len(newFilters) > 0 THEN setFilters(newFilters) ELSE clearFilters
    /\ selectedSincePoll' = (selectedSincePoll /\ polls' > 0)
    /\ UNCHANGED <<cfgVars, hoverVars, status, statusDirty, reportRef, reportWidgetVars,
                   timerVars, mapWidgetVars, clicks, userEvents, applyVars>>

\* the awaits of one pollActiveFilters invocation settle (report.getPages, then
\* activePage.getFilters, which reads the page filters) and its rest runs
PollSettles ==
    /\ polls > 0
    /\ polls' = polls - 1
    /\ \E r \in {"getPagesRejects", "noActivePage", "getFiltersRejects", "filters"} :
          IF r # "filters" \/ Len(pageFilters) = 0 THEN NoWrite
          ELSE LET newFilters == PolledFilters(pageFilters)
               IN  IF Len(newFilters) > 0 THEN setFilters(newFilters) ELSE NoWrite
    /\ selectedSincePoll' = (selectedSincePoll /\ polls' > 0)
    /\ UNCHANGED <<cfgVars, hoverVars, status, statusDirty, reportRef, reportWidgetVars,
                   timerVars, mapWidgetVars, clicks, userEvents, applyVars>>

\* view.on("click"): the handler hides the tooltip and runs up to
\* await view.hitTest(event)
Click ==
    /\ status = "ready"
    /\ userEvents > 0
    /\ clicks < MaxClicks
    /\ userEvents' = userEvents - 1
    /\ clicks' = clicks + 1
    /\ hoverInfo' = NoHoverInfo
    /\ UNCHANGED <<cfgVars, selectedSincePoll,
                   storeVars, status, statusDirty, reportRef,
                   reportWidgetVars, timerVars, polls, mapWidgetVars,
                   applyVars, hoverTimeout, hoverTests, hoverViews,
                   hoverHighlightRef, hoverHighlights, hoverEvents>>

\* the click handler clearing the store when the hit feature yields no entry
clickHandlerClearing(response) ==
    /\ clicks > 0
    /\ clicks' = clicks - 1
    /\ LET results == OperationalHits(response)
       IN  IF Len(results) = 0 THEN clearFilters
           ELSE LET graphic == results[1]
                IN  IF ~graphic.attributes.present THEN clearFilters
                    ELSE LET newFilters ==
                                 ClickEntries(fieldMappings, graphic.title,
                                              graphic.attributes.at)
                         IN  IF Len(newFilters) > 0 THEN setFilters(newFilters)
                             ELSE clearFilters
    /\ UNCHANGED <<cfgVars, selectedSincePoll,
                   hoverVars, status, statusDirty, reportRef, reportWidgetVars,
                   timerVars, polls, mapWidgetVars, userEvents, applyVars>>

\* view.hitTest settles; the rest of the click handler runs
clickHandler(response) ==
    /\ clicks > 0
    /\ clicks' = clicks - 1
    /\ LET results == OperationalHits(response)
       IN  IF Len(results) = 0 THEN clearFilters
           ELSE LET graphic == results[1]
                IN  IF ~graphic.attributes.present THEN NoWrite
                    ELSE LET newFilters ==
                                 ClickEntries(fieldMappings, graphic.title,
                                              graphic.attributes.at)
                         IN  IF Len(newFilters) > 0 THEN setFilters(newFilters)
                             ELSE NoWrite
    /\ UNCHANGED <<cfgVars, selectedSincePoll,
                   hoverVars, status, statusDirty, reportRef, reportWidgetVars,
                   timerVars, polls, mapWidgetVars, userEvents, applyVars>>

HitTestSettles ==
    /\ clicks > 0
    /\ \E response \in HitTestResults(AttributeSets) : clickHandler(response)

HitTestSettlesAny ==
    /\ clicks > 0
    /\ \E response \in HitTestResults(AnyAttributeSets) : clickHandler(response)

\* ------------------------------------------------------------ hover
\* the tooltip rows of a graphic: its attributes that are present and not blank
buildTooltipFields(attributes) ==
    IF ~attributes.present THEN <<>>
    ELSE SelectSeq(<<attributes.at.County, attributes.at.Lebel>>,
                   LAMBDA val : IsPresent(val) /\ Trim(ToStr(val)) # <<>>)

nonHoverVars ==
    <<cfgVars, selectedSincePoll, storeVars, status, statusDirty, reportRef,
      reportWidgetVars,
      timerVars, polls, mapWidgetVars, clicks, userEvents, applyVars>>

\* view.on("pointer-move"): clear the hover timer and arm it again
PointerMove ==
    /\ status = "ready"
    /\ hoverEvents > 0
    /\ hoverEvents' = hoverEvents - 1
    /\ hoverTimeout' = TRUE
    /\ UNCHANGED <<nonHoverVars, hoverTests, hoverViews, hoverHighlightRef,
                   hoverHighlights,
                   hoverInfo>>

\* the 60 ms hover timer fires: its callback runs up to await view.hitTest
HoverTimerFires ==
    /\ hoverTimeout
    /\ hoverTests < MaxHoverTests
    /\ hoverTimeout' = FALSE
    /\ hoverTests' = hoverTests + 1
    /\ UNCHANGED <<nonHoverVars, hoverViews, hoverHighlightRef, hoverHighlights,
                   hoverInfo,
                   hoverEvents>>

\* view.hitTest of the hover callback settles: the previous hover highlight is
\* removed; on a hit the callback goes on to await view.whenLayerView, else it
\* hides the tooltip
hoverHandler(response) ==
    /\ hoverTests > 0
    /\ hoverTests' = hoverTests - 1
    /\ hoverHighlightRef' = NoGraphic
    /\ hoverHighlights' = IF hoverHighlightRef # NoGraphic THEN hoverHighlights - 1
                          ELSE hoverHighlights
    /\ LET results == OperationalHits(response)
       IN  IF Len(results) > 0
           THEN /\ hoverViews' = hoverViews \cup {results[1]}
                /\ hoverInfo' = hoverInfo
           ELSE /\ hoverViews' = hoverViews
                /\ hoverInfo' = NoHoverInfo
    /\ UNCHANGED <<nonHoverVars, hoverTimeout, hoverEvents>>

HoverHitTestSettles ==
    /\ hoverTests > 0
    /\ \E response \in HitTestResults(AttributeSets) : hoverHandler(response)

\* view.whenLayerView of the hover callback settles: flv.highlight(graphic), or
\* the catch when it throws; then the tooltip is shown if it has rows
HoverLayerViewSettles ==
    /\ \E graphic \in hoverViews :
          /\ hoverViews' = hoverViews \ {graphic}
          /\ \E ok \in BOOLEAN :
                /\ hoverHighlightRef' =
                      IF ok THEN [layerId |-> graphic.layerId, title |-> graphic.title]
                      ELSE hoverHighlightRef
                /\ hoverHighlights' = IF ok THEN hoverHighlights + 1
                                      ELSE hoverHighlights
          /\ hoverInfo' =
                IF Len(buildTooltipFields(graphic.attributes)) > 0
                THEN [shown |-> TRUE, layerTitle |-> graphic.title]
                ELSE NoHoverInfo
    /\ UNCHANGED <<nonHoverVars, hoverTimeout, hoverTests, hoverEvents>>

\* view.on("pointer-leave") that also clears the filters
PointerLeaveClearing ==
    /\ status = "ready"
    /\ hoverEvents > 0
    /\ hoverEvents' = hoverEvents - 1
    /\ hoverInfo' = NoHoverInfo
    /\ hoverHighlightRef' = NoGraphic
    /\ hoverHighlights' = IF hoverHighlightRef # NoGraphic THEN hoverHighlights - 1
                          ELSE hoverHighlights
    /\ clearFilters
    /\ UNCHANGED <<cfgVars, selectedSincePoll,
                   status, statusDirty, reportRef, reportWidgetVars,
                   timerVars, polls, mapWidgetVars, clicks, userEvents, applyVars,
                   hoverTimeout, hoverTests, hoverViews>>

\* view.on("pointer-leave"): hide the tooltip and remove the hover highlight
PointerLeave ==
    /\ status = "ready"
    /\ hoverEvents > 0
    /\ hoverEvents' = hoverEvents - 1
    /\ hoverInfo' = NoHoverInfo
    /\ hoverHighlightRef' = NoGraphic
    /\ hoverHighlights' = IF hoverHighlightRef # NoGraphic THEN hoverHighlights - 1
                          ELSE hoverHighlights
    /\ UNCHANGED <<nonHoverVars, hoverTimeout, hoverTests, hoverViews>>

\* ------------------------------------------------------------ clock
\* 500 ms: the delay of the timer handleRendered arms
RENDERED_DEBOUNCE_MS == 500

DebounceTicks == RENDERED_DEBOUNCE_MS \div TickMs

\* TickMs milliseconds pass
Tick ==
    /\ now < MaxTicks
    /\ now' = now + 1
    /\ UNCHANGED <<cfgVars, selectedSincePoll,
                   hoverVars, storeVars, status, statusDirty, reportRef,
                   reportWidgetVars, renderedTimerRef, armedAt, lastRendered,
                   timerFires, polls, mapWidgetVars, clicks, userEvents,
                   applyVars>>

\* the timer armed by handleRendered fires once its delay has passed
RenderedTimerDue ==
    /\ now - armedAt >= DebounceTicks
    /\ RenderedTimerFires

\* ------------------------------------------------------------ report applier
\* a basic filter keyed by the canonical map field instead of the report column
BasicFilterByField(f) ==
    [filterType |-> "Basic", table |-> f.powerbiTable, column |-> f.field,
     operator |-> "In", values |-> f.values]

BasicFilter(f) ==
    [filterType |-> "Basic", table |-> f.powerbiTable, column |-> f.powerbiColumn,
     operator |-> "In", values |-> f.values]

ReportCommand(cmd, filters) == [cmd |-> cmd, filters |-> filters]

\* the effect without the removeFilters() of the empty case
reportEffectSkippingEmpty(filters) ==
    IF ~reportRef THEN <<>>
    ELSE LET mapped == SelectSeq(filters,
                                 LAMBDA f : /\ f.source = "arcgis"
                                            /\ f.powerbiTable # NoName
                                            /\ f.powerbiColumn # NoName)
         IN  IF Len(mapped) > 0
             THEN <<ReportCommand("setFilters",
                                  [i \in 1..Len(mapped) |-> BasicFilter(mapped[i])])>>
             ELSE <<>>

\* the effect without the early return on a missing report instance
reportEffectUnguarded(filters) ==
    LET arcgisFilters == SelectSeq(filters, LAMBDA f : f.source = "arcgis")
    IN  IF Len(arcgisFilters) = 0
        THEN <<ReportCommand("removeFilters", <<>>)>>
        ELSE LET mapped == SelectSeq(arcgisFilters,
                                     LAMBDA f : /\ f.powerbiTable # NoName
                                                /\ f.powerbiColumn # NoName)
                 pbiFilters == [i \in 1..Len(mapped) |-> BasicFilter(mapped[i])]
             IN  IF Len(pbiFilters) > 0
                 THEN <<ReportCommand("setFilters", pbiFilters)>>
                 ELSE <<>>

\* the useEffect on [activeFilters] of ReportEmbedView: the commands it issues
reportEffect(filters) ==
    IF ~reportRef THEN <<>>
    ELSE LET arcgisFilters == SelectSeq(filters, LAMBDA f : f.source = "arcgis")
         IN  IF Len(arcgisFilters) = 0
             THEN <<ReportCommand("removeFilters", <<>>)>>
             ELSE LET mapped == SelectSeq(arcgisFilters,
                                          LAMBDA f : /\ f.powerbiTable # NoName
                                                     /\ f.powerbiColumn # NoName)
                      pbiFilters == [i \in 1..Len(mapped) |-> BasicFilter(mapped[i])]
                  IN  IF Len(pbiFilters) > 0
                      THEN <<ReportCommand("setFilters", pbiFilters)>>
                      ELSE <<>>

\* ------------------------------------------------------------ map applier
PbiFilters(filters) == SelectSeq(filters, LAMBDA f : f.source = "powerbi")

LayerViewCall(layerId, where) == [layer |-> layerId, where |-> where]

\* empty branch: flv.filter = null on every layer that is not a visualization layer
ClearCalls ==
    {LayerViewCall(AllFeatureLayers[i].id, NoWhere) :
        i \in {j \in 1..Len(AllFeatureLayers) :
                  ~isVisualizationLayer(AllFeatureLayers[j])}}

\* Phase 2: one call per filterable layer, with the clause built for it
FilterCalls(pbiFilters) ==
    {LayerViewCall(filterableLayers[i].id,
                   buildWhereClause(filterableLayers[i], pbiFilters)) :
        i \in 1..Len(filterableLayers)}

\* zoomToFilteredArea without the continue on a layer that has no clause
ZoomQueriesEveryLayer(pbiFilters) ==
    [i \in 1..Len(filterableLayers) |->
        LayerViewCall(filterableLayers[i].id,
                      buildWhereClause(filterableLayers[i], pbiFilters))]

\* the layers zoomToFilteredArea will query, in order: those with a clause
ZoomQueries(pbiFilters) ==
    SelectSeq([i \in 1..Len(filterableLayers) |->
                  LayerViewCall(filterableLayers[i].id,
                                buildWhereClause(filterableLayers[i], pbiFilters))],
              LAMBDA q : q.where # NoWhere)

ZoomTask(stage, queries) == [stage |-> stage, queries |-> queries]

\* the map-side effect with [activeFilters] as its only dependency
CommitOnFiltersOnly ==
    /\ filtersDirty \/ statusDirty
    /\ filtersDirty' = FALSE
    /\ statusDirty' = FALSE
    /\ IF filtersDirty
       THEN \E cmds \in {reportEffect(activeFilters)} :
               /\ reportCalls' = reportCalls \cup Range(cmds)
               /\ reportApply' = [ran |-> reportRef, cmds |-> cmds]
       ELSE UNCHANGED <<reportCalls, reportApply>>
    /\ IF status # "ready" \/ ~filtersDirty
       THEN /\ mapApply' = NoMapApply
            /\ UNCHANGED mapWidgetVars
       ELSE \E pbiFilters \in {PbiFilters(activeFilters)} :
            \E calls \in {IF Len(pbiFilters) = 0 THEN ClearCalls
                          ELSE FilterCalls(pbiFilters)} :
            \E queries \in {ZoomQueries(pbiFilters)} :
               /\ highlightHandlesRef' = <<>>
               /\ layerViewFilter' = layerViewFilter
               /\ layerViewCalls' = layerViewCalls \cup calls
               /\ predicateLayers' = predicateLayers \cup {c.layer : c \in calls}
               /\ IF Len(pbiFilters) = 0
                  THEN /\ viewExtent' = InitialExtent
                       /\ zoomTasks' = zoomTasks
                       /\ mapApply' = [ran |-> TRUE, calls |-> calls,
                                       goTo |-> TRUE, zoom |-> FALSE]
                  ELSE /\ viewExtent' = viewExtent
                       /\ Len(queries) > 0 => Len(zoomTasks) < MaxZoomTasks
                       /\ zoomTasks' = IF Len(queries) > 0
                                       THEN Append(zoomTasks, ZoomTask("query", queries))
                                       ELSE zoomTasks
                       /\ mapApply' = [ran |-> TRUE, calls |-> calls,
                                       goTo |-> FALSE, zoom |-> Len(queries) > 0]
    /\ UNCHANGED <<cfgVars, selectedSincePoll,
                   hoverVars, activeFilters, lastWritten, writeLog, status,
                   reportRef, pageFilters, reportFilters, timerVars,
                   polls, clicks, userEvents>>

\* React re-renders the consumers of the context and runs the effects whose
\* dependencies changed: the report-side effect on activeFilters, the map-side
\* effect on activeFilters or status
Commit ==
    /\ filtersDirty \/ statusDirty
    /\ filtersDirty' = FALSE
    /\ statusDirty' = FALSE
    /\ IF filtersDirty
       THEN \E cmds \in {reportEffect(activeFilters)} :
               /\ reportCalls' = reportCalls \cup Range(cmds)
               /\ reportApply' = [ran |-> reportRef, cmds |-> cmds]
       ELSE UNCHANGED <<reportCalls, reportApply>>
    /\ IF status # "ready"
       THEN /\ mapApply' = NoMapApply
            /\ UNCHANGED mapWidgetVars
       ELSE \E pbiFilters \in {PbiFilters(activeFilters)} :
            \E calls \in {IF Len(pbiFilters) = 0 THEN ClearCalls
                          ELSE FilterCalls(pbiFilters)} :
            \E queries \in {ZoomQueries(pbiFilters)} :
               /\ highlightHandlesRef' = <<>>
               /\ layerViewFilter' = layerViewFilter
               /\ layerViewCalls' = layerViewCalls \cup calls
               /\ predicateLayers' = predicateLayers \cup {c.layer : c \in calls}
               /\ IF Len(pbiFilters) = 0
                  THEN /\ viewExtent' = InitialExtent
                       /\ zoomTasks' = zoomTasks
                       /\ mapApply' = [ran |-> TRUE, calls |-> calls,
                                       goTo |-> TRUE, zoom |-> FALSE]
                  ELSE /\ viewExtent' = viewExtent
                       /\ Len(queries) > 0 => Len(zoomTasks) < MaxZoomTasks
                       /\ zoomTasks' = IF Len(queries) > 0
                                       THEN Append(zoomTasks, ZoomTask("query", queries))
                                       ELSE zoomTasks
                       /\ mapApply' = [ran |-> TRUE, calls |-> calls,
                                       goTo |-> FALSE, zoom |-> Len(queries) > 0]
    /\ UNCHANGED <<cfgVars, selectedSincePoll,
                   hoverVars, activeFilters, lastWritten, writeLog, status,
                   reportRef, pageFilters, reportFilters, timerVars,
                   polls, clicks, userEvents>>

\* the catch of setFilters answering a rejection with removeFilters()
ReportCallSettlesCompensating ==
    /\ \E c \in reportCalls :
          \E accepted \in BOOLEAN :
             IF accepted
             THEN /\ reportCalls' = reportCalls \ {c}
                  /\ reportFilters' = c.filters
                  /\ handleRendered
             ELSE /\ reportCalls' = (reportCalls \ {c})
                                       \cup {ReportCommand("removeFilters", <<>>)}
                  /\ UNCHANGED <<reportFilters, timerVars>>
    /\ UNCHANGED <<cfgVars, selectedSincePoll,
                   hoverVars, storeVars, status, statusDirty, reportRef,
                   pageFilters, polls, mapWidgetVars, clicks, userEvents,
                   applyVars>>

\* a report.setFilters / report.removeFilters promise settles; an accepted
\* command changes the report-level filters, and the report re-renders and emits
\* "rendered"
ReportCallSettles ==
    /\ \E c \in reportCalls :
          /\ reportCalls' = reportCalls \ {c}
          /\ \E accepted \in BOOLEAN :
                IF accepted
                THEN /\ reportFilters' = c.filters
                     /\ handleRendered
                ELSE UNCHANGED <<reportFilters, timerVars>>
    /\ UNCHANGED <<cfgVars, selectedSincePoll,
                   hoverVars, storeVars, status, statusDirty, reportRef,
                   pageFilters, polls, mapWidgetVars, clicks, userEvents,
                   applyVars>>

\* a layer-view callback that narrows the clause a layer already has instead of
\* replacing it
LayerViewSettlesNarrowing ==
    /\ \E c \in layerViewCalls :
          /\ layerViewCalls' = layerViewCalls \ {c}
          /\ layerViewFilter' =
                [layerViewFilter EXCEPT ![c.layer] =
                    IF @ = NoWhere \/ c.where = NoWhere THEN c.where
                    ELSE @ \o <<SPACE, "A", "N", "D", SPACE>> \o c.where]
    /\ UNCHANGED <<cfgVars, selectedSincePoll,
                   hoverVars, storeVars, status, statusDirty, reportRef,
                   reportWidgetVars, timerVars, polls, viewExtent,
                   highlightHandlesRef, zoomTasks, predicateLayers, clicks,
                   userEvents, applyVars>>

\* a layer-view callback that an effect run issued before the latest one
\* leaving the predicate alone
LayerViewSettlesNewestOnly ==
    /\ \E c \in layerViewCalls :
          /\ layerViewCalls' = layerViewCalls \ {c}
          /\ layerViewFilter' = IF c \in mapApply.calls
                                THEN [layerViewFilter EXCEPT ![c.layer] = c.where]
                                ELSE layerViewFilter
    /\ UNCHANGED <<cfgVars, selectedSincePoll,
                   hoverVars, storeVars, status, statusDirty, reportRef,
                   reportWidgetVars, timerVars, polls, viewExtent,
                   highlightHandlesRef, zoomTasks, predicateLayers, clicks,
                   userEvents, applyVars>>

\* a view.whenLayerView(fl) promise resolves and its callback sets flv.filter
LayerViewSettles ==
    /\ \E c \in layerViewCalls :
          /\ layerViewCalls' = layerViewCalls \ {c}
          /\ layerViewFilter' = [layerViewFilter EXCEPT ![c.layer] = c.where]
    /\ UNCHANGED <<cfgVars, selectedSincePoll,
                   hoverVars, storeVars, status, statusDirty, reportRef,
                   reportWidgetVars, timerVars, polls, viewExtent,
                   highlightHandlesRef, zoomTasks, predicateLayers, clicks,
                   userEvents, applyVars>>

\* zoomToFilteredArea removing the predicate of a layer whose query rejected or
\* returned no feature
ZoomQuerySettlesReverting ==
    /\ \E i \in 1..Len(zoomTasks) :
          LET task == zoomTasks[i]
              q == Head(task.queries)
          IN  /\ task.stage = "query"
              /\ \E r \in {"reject", "empty", "noGeometry", "features"} :
                    IF r \in {"reject", "empty"}
                    THEN /\ zoomTasks' =
                               IF Len(task.queries) > 1
                               THEN [zoomTasks EXCEPT ![i].queries = Tail(@)]
                               ELSE RemoveAt(zoomTasks, i)
                         /\ viewExtent' = viewExtent
                         /\ layerViewFilter' =
                               [layerViewFilter EXCEPT ![q.layer] = NoWhere]
                    ELSE /\ zoomTasks' = [zoomTasks EXCEPT ![i].stage = "highlight"]
                         /\ viewExtent' = IF r = "features"
                                          THEN FilteredExtent(q.layer, q.where)
                                          ELSE viewExtent
                         /\ layerViewFilter' = layerViewFilter
    /\ UNCHANGED <<cfgVars, selectedSincePoll,
                   hoverVars, storeVars, status, statusDirty, reportRef,
                   reportWidgetVars, timerVars, polls,
                   layerViewCalls, highlightHandlesRef, predicateLayers, clicks,
                   userEvents, applyVars>>

\* fl.queryFeatures(query) of a zoomToFilteredArea invocation settles
ZoomQuerySettles ==
    /\ \E i \in 1..Len(zoomTasks) :
          LET task == zoomTasks[i]
              q == Head(task.queries)
          IN  /\ task.stage = "query"
              /\ \E r \in {"reject", "empty", "noGeometry", "features"} :
                    IF r \in {"reject", "empty"}
                    THEN /\ zoomTasks' =
                               IF Len(task.queries) > 1
                               THEN [zoomTasks EXCEPT ![i].queries = Tail(@)]
                               ELSE RemoveAt(zoomTasks, i)
                         /\ viewExtent' = viewExtent
                    ELSE /\ zoomTasks' = [zoomTasks EXCEPT ![i].stage = "highlight"]
                         /\ viewExtent' = IF r = "features"
                                          THEN FilteredExtent(q.layer, q.where)
                                          ELSE viewExtent
    /\ UNCHANGED <<cfgVars, selectedSincePoll,
                   hoverVars, storeVars, status, statusDirty, reportRef,
                   reportWidgetVars, timerVars, polls, layerViewFilter,
                   layerViewCalls, highlightHandlesRef, predicateLayers, clicks,
                   userEvents, applyVars>>

\* zoomToFilteredArea going on to the next layer after the highlight instead of
\* returning
ZoomHighlightSettlesContinuing ==
    /\ \E i \in 1..Len(zoomTasks) :
          LET task == zoomTasks[i]
              q == Head(task.queries)
          IN  /\ task.stage = "highlight"
              /\ zoomTasks' =
                    IF Len(task.queries) > 1
                    THEN [zoomTasks EXCEPT ![i] = ZoomTask("query", Tail(task.queries))]
                    ELSE RemoveAt(zoomTasks, i)
              /\ \E ok \in BOOLEAN :
                    highlightHandlesRef' =
                        IF ok THEN Append(highlightHandlesRef, q)
                        ELSE highlightHandlesRef
    /\ UNCHANGED <<cfgVars, selectedSincePoll,
                   hoverVars, storeVars, status, statusDirty, reportRef,
                   reportWidgetVars, timerVars, polls, layerViewFilter,
                   layerViewCalls, viewExtent, predicateLayers, clicks,
                   userEvents, applyVars>>

\* goTo and whenLayerView of a zoomToFilteredArea invocation have settled:
\* flv.highlight(result.features), or the catch when it throws
ZoomHighlightSettles ==
    /\ \E i \in 1..Len(zoomTasks) :
          LET task == zoomTasks[i]
              q == Head(task.queries)
          IN  /\ task.stage = "highlight"
              /\ zoomTasks' = RemoveAt(zoomTasks, i)
              /\ \E ok \in BOOLEAN :
                    highlightHandlesRef' =
                        IF ok THEN Append(highlightHandlesRef, q)
                        ELSE highlightHandlesRef
    /\ UNCHANGED <<cfgVars, selectedSincePoll,
                   hoverVars, storeVars, status, statusDirty, reportRef,
                   reportWidgetVars, timerVars, polls, layerViewFilter,
                   layerViewCalls, viewExtent, predicateLayers, clicks,
                   userEvents, applyVars>>

SettleNext ==
    \/ Commit
    \/ RenderedTimerFires
    \/ PollSettles
    \/ ReportCallSettles
    \/ LayerViewSettles
    \/ ZoomQuerySettles
    \/ ZoomHighlightSettles

SystemNext == Embedded \/ MapLoaded \/ SettleNext

\* the steps of a loaded page
NextOnce == DataSelected \/ SlicerChanged \/ Click \/ HitTestSettles \/ SettleNext

Next == DataSelected \/ SlicerChanged \/ Click \/ HitTestSettles \/ SystemNext

NextAnyConfig ==
    DataSelectedAny \/ SlicerChanged \/ Click \/ HitTestSettlesAny \/ SystemNext

\* the steps of a loaded page with a pointer over the map
NextHover ==
    \/ PointerMove
    \/ HoverTimerFires
    \/ HoverHitTestSettles
    \/ HoverLayerViewSettles
    \/ PointerLeave
    \/ NextOnce

\* the steps of a loaded page as time passes
NextTimed ==
    \/ Tick
    \/ RenderedTimerDue
    \/ DataSelected
    \/ SlicerChanged
    \/ Click
    \/ HitTestSettles
    \/ Commit
    \/ PollSettles
    \/ ReportCallSettles
    \/ LayerViewSettles
    \/ ZoomQuerySettles
    \/ ZoomHighlightSettles

Spec == Init /\ [][Next]_vars

\* the deployed configuration, loaded, with pointer events
InitHover ==
    InitWith({FIELD_MAPPINGS}, {WebMapHeatCluster}, MaxUserEventsHover,
             MaxHoverEvents, TRUE)

SpecHover == InitHover /\ [][NextHover]_vars

\* the deployed configuration, loaded, the report having just rendered
InitTimed ==
    InitWith({FIELD_MAPPINGS}, {WebMapHeatCluster}, MaxUserEventsTimed, 0, TRUE)

SpecTimed == InitTimed /\ [][NextTimed]_vars

SpecAnyConfig == InitAnyConfig /\ [][NextAnyConfig]_vars

SpecOverlap == InitOverlap /\ [][NextAnyConfig]_vars

SpecRenamedLayer == InitRenamedLayer /\ [][Next]_vars

\* every pending callback of the event loop is eventually run
Fairness ==
    /\ WF_vars(Commit)
    /\ WF_vars(RenderedTimerFires)
    /\ WF_vars(PollSettles)
    /\ WF_vars(HitTestSettles)
    /\ WF_vars(ReportCallSettles)
    /\ WF_vars(LayerViewSettles)
    /\ WF_vars(ZoomQuerySettles)
    /\ WF_vars(ZoomHighlightSettles)

SpecOnce == InitOnce /\ [][NextOnce]_vars /\ Fairness

\* ------------------------------------------------------------ claims
AllFrom(filters, source) == \A i \in 1..Len(filters) : filters[i].source = source

\* this step is a setFilters / clearFilters call with this snapshot
WritesSnapshot(filters) ==
    /\ activeFilters' = filters
    /\ lastWritten' = filters
    /\ filtersDirty'
    /\ writeLog' # writeLog \/ Len(writeLog) = MaxWriteLog

\* the effects run on the snapshot of the latest write
CommitsWrite == filtersDirty /\ ~filtersDirty'

\* C1: a store write whose entries are all report-sourced makes the report-side
\* applier issue no command to the report widget, neither "set filters" nor
\* "remove all filters".
C1_ReportSelfSuppression ==
    [][(CommitsWrite /\ Len(activeFilters) > 0 /\ AllFrom(activeFilters, "powerbi"))
          => (reportApply'.cmds = <<>> /\ reportCalls' = reportCalls)]_vars

\* C2: a store write whose entries are all map-sourced makes the map-side
\* applier issue no command to the map widget: no layer predicate set or
\* removed, no extent animation, no highlight.
C2_MapSelfSuppression ==
    [][(CommitsWrite /\ Len(activeFilters) > 0 /\ AllFrom(activeFilters, "arcgis"))
          => /\ mapApply'.calls = {} /\ ~mapApply'.goTo /\ ~mapApply'.zoom
             /\ layerViewCalls' = layerViewCalls
             /\ viewExtent' = viewExtent
             /\ zoomTasks' = zoomTasks]_vars

\* nothing is pending anywhere: no effect to run, no command, timer, poll,
\* hit-test, layer-view call or zoom in flight
Quiescent ==
    /\ ~filtersDirty /\ ~statusDirty
    /\ reportCalls = {} /\ ~renderedTimerRef /\ polls = 0
    /\ clicks = 0 /\ layerViewCalls = {} /\ zoomTasks = <<>>

\* C3: after a single user interaction and no further input, only finitely many
\* store writes and widget commands occur: the system becomes quiescent and
\* stays so.
C3_NoFeedbackLoop == <>[]Quiescent

\* heatmap renderer, or feature reduction (cluster)
VisualizationOnly(fl) == fl.rendererType = "heatmap" \/ fl.featureReduction

VisualizationIds ==
    {AllFeatureLayers[i].id :
        i \in {j \in 1..Len(AllFeatureLayers) : VisualizationOnly(AllFeatureLayers[j])}}

\* C4: a visualization-only layer never receives a "set layer predicate"
\* operation, neither an expression nor a reset to none, whatever is written.
C4_VisualizationLayersUntouched ==
    /\ predicateLayers \cap VisualizationIds = {}
    /\ \A c \in layerViewCalls : c.layer \notin VisualizationIds
    /\ \A id \in VisualizationIds : layerViewFilter[id] = NoWhere

\* C4 witness: a predicate was set on the filterable layer and the clear that
\* followed has been processed, with visualization layers on the map
C4_Witness ==
    /\ VisualizationIds # {}
    /\ "overlay" \in predicateLayers
    /\ layerViewFilter["overlay"] # NoWhere
    /\ activeFilters = <<>> /\ ~filtersDirty
    /\ mapApply.ran /\ mapApply.goTo

FilterableIds == {filterableLayers[i].id : i \in 1..Len(filterableLayers)}

\* the store is empty, the map-side applier has processed that while the map
\* was ready, and every asynchronous map operation has settled
ClearSettled ==
    /\ status = "ready" /\ ~filtersDirty /\ ~statusDirty
    /\ activeFilters = <<>>
    /\ layerViewCalls = {} /\ zoomTasks = <<>>

\* C5: after a clear, once the pending layer-view operations have settled,
\* every filterable layer has no predicate.
C5_ClearRemovesPredicates ==
    ClearSettled => \A id \in FilterableIds : layerViewFilter[id] = NoWhere

\* C6: after a clear, once all asynchronous map operations have settled, the
\* view extent is the extent captured at initial load.
C6_ClearRestoresExtent == ClearSettled => viewExtent = InitialExtent

\* C7: after a clear, once all asynchronous map operations have settled, no
\* selection highlight remains live.
C7_ClearClearsHighlights == ClearSettled => highlightHandlesRef = <<>>

\* C8: after setFilters(E) the snapshot is exactly E (after clearFilters()
\* empty), nothing of the previous snapshot retained; a map-sourced write
\* leaves no report-sourced entry and vice versa.
C8_SnapshotReplace ==
    /\ activeFilters = lastWritten
    /\ AllFrom(lastWritten, "arcgis") => AllFrom(activeFilters, "arcgis")
    /\ AllFrom(lastWritten, "powerbi") => AllFrom(activeFilters, "powerbi")

\* C8 witness: a map-sourced write has just replaced a report-sourced snapshot
\* that the map-side applier had applied
C8_Witness ==
    /\ filtersDirty /\ Len(activeFilters) > 0 /\ AllFrom(activeFilters, "arcgis")
    /\ mapApply.ran /\ mapApply.zoom

\* C9: every snapshot written by the extractors has at most one entry per
\* canonical field, for every mapping table.
C9_FieldUnique ==
    \A i, j \in 1..Len(activeFilters) :
        activeFilters[i].field = activeFilters[j].field => i = j

\* s with every single quote doubled
RECURSIVE C10_Doubled(_)
C10_Doubled(s) ==
    IF s = <<>> THEN <<>>
    ELSE C10_Doubled(SubSeq(s, 1, Len(s) - 1))
         \o (IF s[Len(s)] = "'" THEN <<"'", "'">> ELSE <<s[Len(s)]>>)

\* decimal digits of a natural number
RECURSIVE C10_Digits(_)
C10_Digits(n) ==
    IF n >= 10 THEN C10_Digits(n \div 10) \o C10_Digits(n % 10)
    ELSE <<CHOOSE d \in {"0", "1", "2", "3", "4", "5", "6", "7", "8", "9"} :
              \A k \in 0..9 : (k = n) <=> (d = <<"0", "1", "2", "3", "4", "5", "6",
                                                 "7", "8", "9">>[k + 1])>>

\* the rows of the mapping table that serve entry e on layer fl
C10_Rows(fl, e) ==
    {r \in 1..Len(fieldMappings) :
        /\ fieldMappings[r].powerbiTable = e.powerbiTable
        /\ fieldMappings[r].powerbiColumn = e.powerbiColumn
        /\ fieldMappings[r].arcgisLayerTitle \in {NoLayerTitle, fl.title}}

\* "F = 'x'" with the quotes of x doubled, "F = n" for a number, x = t(value)
C10_Expected(fl, e) ==
    LET row == fieldMappings[CHOOSE r \in C10_Rows(fl, e) :
                                \A q \in C10_Rows(fl, e) : r <= q]
        x == ApplyTransform(row.transformValue, e.values[1])
    IN  <<row.arcgisField, " ", "=", " ">>
        \o (IF x.t = "number"
            THEN (IF x.n < 0 THEN <<"-">> \o C10_Digits(0 - x.n) ELSE C10_Digits(x.n))
            ELSE <<"'">> \o C10_Doubled(x.s) \o <<"'">>)

\* C10: for every report-sourced entry with exactly one value and every
\* filterable layer that has a mapping for it, the clause built for the layer
\* is "F = 'x'" with x = t(value) and its single quotes doubled, or "F = n"
\* unquoted for a number; when the entry is the whole snapshot, that clause is
\* the predicate the map-side applier sets on the layer.
C10_SingleValuePredicate ==
    \A i \in 1..Len(activeFilters) : \A k \in 1..Len(filterableLayers) :
        LET e == activeFilters[i]
            fl == filterableLayers[k]
        IN  (e.source = "powerbi" /\ Len(e.values) = 1 /\ C10_Rows(fl, e) # {})
            => /\ ClausesOf(fl, e) = <<C10_Expected(fl, e)>>
               /\ (Len(activeFilters) = 1 /\ ~filtersDirty /\ mapApply.ran)
                  => [layer |-> fl.id, where |-> C10_Expected(fl, e)]
                         \in mapApply.calls

\* C10 witness: for a single-value entry whose raw value carries an emoji
\* prefix and a quote, the applier has set the predicate County = 'a'''
\* (the stripped value, its quote doubled) on the overlay layer
C10_Witness ==
    /\ Len(activeFilters) = 1 /\ ~filtersDirty /\ mapApply.ran
    /\ activeFilters[1].source = "powerbi"
    /\ activeFilters[1].values = <<ValEmoji>>
    /\ [layer |-> "overlay",
        where |-> <<"County", " ", "=", " ", "'", "a", "'", "'", "'">>]
           \in mapApply.calls

\* the elements of s in order of first occurrence, each once
C11_Distinct(s) ==
    SelectSeq([i \in 1..Len(s) |-> [v |-> s[i], first |-> \A j \in 1..(i - 1) : s[j] # s[i]]],
              LAMBDA p : p.first)

\* 'x' with the quotes of x doubled, or the digits of a number
C11_Literal(x) ==
    IF x.t = "number"
    THEN (IF x.n < 0 THEN <<"-">> \o C10_Digits(0 - x.n) ELSE C10_Digits(x.n))
    ELSE <<"'">> \o C10_Doubled(x.s) \o <<"'">>

RECURSIVE C11_List(_)
C11_List(items) ==
    IF Len(items) = 0 THEN <<>>
    ELSE IF Len(items) = 1 THEN C11_Literal(items[1].v)
    ELSE C11_List(SubSeq(items, 1, Len(items) - 1))
         \o <<",", " ">> \o C11_Literal(items[Len(items)].v)

\* "F IN (...)" listing every distinct transformed value once
C11_Expected(fl, e) ==
    LET row == fieldMappings[CHOOSE r \in C10_Rows(fl, e) :
                                \A q \in C10_Rows(fl, e) : r <= q]
        xs == [i \in 1..Len(e.values) |->
                  ApplyTransform(row.transformValue, e.values[i])]
    IN  <<row.arcgisField, " ", "I", "N", " ", "(">>
        \o C11_List(C11_Distinct(xs)) \o <<")">>

\* C11: for every report-sourced entry with more than one value and every
\* filterable layer that has a mapping for it, the clause built for the layer
\* is "F IN (...)" and lists every distinct transformed value exactly once.
C11_MultiValuePredicate ==
    \A i \in 1..Len(activeFilters) : \A k \in 1..Len(filterableLayers) :
        LET e == activeFilters[i]
            fl == filterableLayers[k]
        IN  (e.source = "powerbi" /\ Len(e.values) > 1 /\ C10_Rows(fl, e) # {})
            => ClausesOf(fl, e) = <<C11_Expected(fl, e)>>

\* the 'set filters' command with one basic filter per entry of the snapshot
C12_Command ==
    [cmd |-> "setFilters",
     filters |-> [i \in 1..Len(activeFilters) |->
                    [filterType |-> "Basic",
                     table |-> activeFilters[i].powerbiTable,
                     column |-> activeFilters[i].powerbiColumn,
                     operator |-> "In",
                     values |-> activeFilters[i].values]]]

\* the appliers run on a snapshot written by a map click on a mapped feature
C12_ClickWriteApplied ==
    CommitsWrite /\ Len(activeFilters) > 0 /\ AllFrom(activeFilters, "arcgis")

C12_OneSetCommand ==
    /\ \A i \in 1..Len(activeFilters) : Len(activeFilters[i].values) = 1
    /\ reportApply'.cmds = <<C12_Command>>
    /\ reportCalls' = reportCalls \cup {C12_Command}

\* C12 as stated: a map click on a feature of a mapped layer results in exactly
\* one 'set filters' command and no 'remove all filters' command, carrying one
\* basic filter (reportTable, reportColumn, "In", [v]) per written entry.
C12_ClickSetsReportFilters == [][C12_ClickWriteApplied => C12_OneSetCommand]_vars

\* C12 amended: the same, when the report widget is initialized at the time the
\* report-side applier runs on the snapshot written by the click.
C12_ClickSetsReportFiltersWhenEmbedded ==
    [][(C12_ClickWriteApplied /\ reportRef) => C12_OneSetCommand]_vars

\* C12 witness: the applier has answered the click on a County = a' feature
\* with one 'set filters' command for NC_Permits / County Lebel In [a']
C12_Witness ==
    /\ ~filtersDirty /\ Len(activeFilters) = 1 /\ AllFrom(activeFilters, "arcgis")
    /\ reportApply.ran
    /\ reportApply.cmds =
           <<[cmd |-> "setFilters",
              filters |-> <<[filterType |-> "Basic", table |-> "NC_Permits",
                             column |-> "County Lebel", operator |-> "In",
                             values |-> <<ValPlain>>]>>]>>

\* C13: when the appliers run on an empty snapshot and the report widget is
\* initialized, the report-side applier issues exactly one 'remove all filters'
\* command and no 'set filters' command.
C13_ClearRemovesReportFilters ==
    [][(CommitsWrite /\ activeFilters = <<>> /\ reportRef)
          => /\ reportApply'.cmds = <<[cmd |-> "removeFilters", filters |-> <<>>]>>
             /\ reportCalls' =
                    reportCalls \cup {[cmd |-> "removeFilters", filters |-> <<>>]}]_vars

\* C13 witness: the store was cleared after the report had accepted filters of
\* a map click, and the applier has issued the 'remove all filters' command
C13_Witness ==
    /\ activeFilters = <<>> /\ ~filtersDirty
    /\ reportFilters # <<>>
    /\ reportApply.ran
    /\ reportApply.cmds = <<[cmd |-> "removeFilters", filters |-> <<>>]>>
    /\ [cmd |-> "removeFilters", filters |-> <<>>] \in reportCalls

\* the store was written n times since the page loaded, every time with the same
\* non-empty report-sourced snapshot
C14_WrittenTimes(n) ==
    /\ Len(writeLog) = n
    /\ \A i \in 1..n : writeLog[i] = writeLog[1]
    /\ Len(writeLog[1]) > 0
    /\ AllFrom(writeLog[1], "powerbi")

\* the map is ready and no effect run, layer-view callback or zoomToFilteredArea
\* invocation is pending
C14_Settled ==
    /\ status = "ready"
    /\ ~filtersDirty
    /\ ~statusDirty
    /\ layerViewCalls = {}
    /\ zoomTasks = <<>>

\* the predicate of every layer after one application of snapshot s
C14_Predicates(s) ==
    [l \in LayerIds |->
        IF \E i \in 1..Len(filterableLayers) : filterableLayers[i].id = l
        THEN buildWhereClause(
                 filterableLayers[CHOOSE i \in 1..Len(filterableLayers) :
                                     filterableLayers[i].id = l], s)
        ELSE NoWhere]

\* the extents one application of s can leave: the extent at load when no query
\* returned a geometry, else that of the features of the layer that matched
C14_Extents(s) ==
    {InitialExtent}
    \cup {FilteredExtent(q.layer, q.where) : q \in Range(ZoomQueries(s))}

\* the sets of highlighted features one application of s can leave: none, or
\* the features of the layer that matched
C14_Highlights(s) == {{}} \cup {{q} : q \in Range(ZoomQueries(s))}

\* the features that have a live highlight handle
C14_Highlighted == Range(highlightHandlesRef)

\* a layer has the clause built from s, or none when the clear the effect issued
\* as the map became ready resolved after the set
C14_Outcome(s) ==
    /\ \A l \in LayerIds : layerViewFilter[l] \in {C14_Predicates(s)[l], NoWhere}
    /\ viewExtent \in C14_Extents(s)
    /\ C14_Highlighted \in C14_Highlights(s)

C15_Writes == writeLog' # writeLog

\* the snapshot of the latest write has not reached the effects yet
C15_WritePending == filtersDirty /\ writeLog # <<>>

\* C15: every write reaches both appliers before a later write is made: no
\* setFilters / clearFilters call is made while the snapshot of the preceding
\* call is still waiting for the effects to run
C15_EveryWriteApplied == [][C15_Writes => ~C15_WritePending]_vars

\* the identity items and the values items of the data points
C16_Items(dataPoints) ==
    UNION {{<<dp.identity[k], TRUE>> : k \in 1..Len(dp.identity)}
           \cup {<<dp.values[k], FALSE>> : k \in 1..Len(dp.values)} :
           dp \in Range(dataPoints)}

\* the (table, column, value) triplets an event collects: the items that name
\* a table and a column and carry a value
C16_Triplets(dataPoints) ==
    {<<p[1].table, p[1].column, ItemValue(p[1], p[2])>> :
        p \in {q \in C16_Items(dataPoints) :
                  /\ q[1].table # NoName
                  /\ q[1].column # NoName
                  /\ ItemValue(q[1], q[2]).t # "undefined"}}

C16_Expected(event) ==
    IF Len(event.dataPoints) = 0 THEN WritesSnapshot(<<>>)
    ELSE IF C16_Triplets(event.dataPoints) = {} THEN UNCHANGED storeVars
    ELSE /\ WritesSnapshot(activeFilters')
         /\ Len(activeFilters') > 0
         /\ AllFrom(activeFilters', "powerbi")
         /\ UNION {Range(activeFilters'[i].values) : i \in 1..Len(activeFilters')}
               = {t[3] : t \in C16_Triplets(event.dataPoints)}

\* C16: a dataSelected event (one that carries a payload) with zero data points
\* replaces the store with the empty set; with at least one data point it
\* writes the store, with the values collected, only if a (table, column,
\* value) triplet was collected, and leaves the store unchanged otherwise
C16_SelectionWrites ==
    [][userEvents' < userEvents =>
          \A event \in SelectionEvents(AnyIdentityItems, AnyValuesItems) :
              (event.detail /\ handleDataSelected(event))
                  => C16_Expected(event)]_vars

\* before the map is ready (no click can have written) the store holds what a
\* selection collected from a data point whose identity names no table and
\* whose values item carries a number
C16_Witness ==
    /\ status = "loading"
    /\ activeFilters =
          SelectedFilters(<<DataPoint(
              <<Item(NoName, "County Lebel", ValPlain, Undefined)>>,
              <<Item("NC_Permits", "County Lebel", ValNum, Str(<<"1", "2">>))>>)>>)
    /\ Len(activeFilters) = 1
    /\ activeFilters[1].values = <<ValNum>>
    /\ writeLog = <<activeFilters>>

\* no result of the hit-test is a graphic of a feature layer of the web map
C17_NoOperationalGraphic(response) ==
    \A k \in 1..Len(response) :
        \A i \in 1..Len(AllFeatureLayers) :
            response[k].layerId # AllFeatureLayers[i].id

\* C17: a click whose hit-test returns nothing, or only graphics of layers that
\* were not registered at load (the base map), clears the store
C17_MissClears ==
    [][clicks' < clicks =>
          \A response \in HitTestResults(AnyAttributeSets) :
              (C17_NoOperationalGraphic(response) /\ clickHandler(response))
                  => WritesSnapshot(<<>>)]_vars

\* with no report embedded (only clicks write) a click on a feature was
\* written and a later click that hit no feature has emptied the store
C17_Witness ==
    /\ ~reportRef
    /\ Len(writeLog) = 2
    /\ Len(writeLog[1]) > 0
    /\ AllFrom(writeLog[1], "arcgis")
    /\ writeLog[2] = <<>>
    /\ activeFilters = <<>>
    /\ clicks = 0

\* entry e is what row m of the mapping table yields for the attributes attrs
\* when the row's transform is applied to the raw attribute value
C20_TransformedEntry(e, m, attrs) ==
    /\ e.field = m.arcgisField
    /\ e.powerbiTable = m.powerbiTable
    /\ e.powerbiColumn = m.powerbiColumn
    /\ e.values = <<ApplyTransform(m.transformValue, attrs[m.arcgisField])>>

\* C20: the transform of the mapping is applied on the way from the map to the
\* report as it is on the way from the report to the map (C10, C11): every
\* entry a map click writes, which the report-side effect sends on with its
\* values unchanged, carries transform(raw attribute value)
C20_ClickValuesTransformed ==
    [][clicks' < clicks =>
          \A response \in HitTestResults(AnyAttributeSets) :
              (/\ Len(OperationalHits(response)) > 0
               /\ clickHandler(response)
               /\ writeLog' # writeLog
               /\ Len(activeFilters') > 0)
              => \A i \in 1..Len(activeFilters') :
                    \E k \in 1..Len(fieldMappings) :
                        C20_TransformedEntry(
                            activeFilters'[i], fieldMappings[k],
                            OperationalHits(response)[1].attributes.at)]_vars

\* C18: no step of the hover path (pointer-move, the hover timer, its hit-test,
\* its highlight and tooltip, pointer-leave) writes the store: the snapshot, and
\* the record of setFilters / clearFilters calls, are as they were
C18_HoverNeverWrites == [][hoverVars' # hoverVars => UNCHANGED storeVars]_vars

\* a feature is highlighted and its tooltip is shown by the hover path, after
\* both pointer events, while the store holds a snapshot
C18_Witness ==
    /\ hoverEvents = 0
    /\ hoverHighlightRef # NoGraphic
    /\ hoverInfo.shown
    /\ Len(activeFilters) > 0
    /\ Len(writeLog) = 1

\* the timer callback of handleRendered runs in this step
C19_TimerCallbackRuns == renderedTimerRef /\ ~renderedTimerRef'

\* the ticks since the latest "rendered" event
C19_SinceRendered == now - lastRendered

\* C19: the timer callback that starts the poll runs only when 500 ms have
\* passed since the latest "rendered" event, and at most once per such event:
\* a burst of events less than 500 ms apart is followed by one run, after the
\* last event
C19_TrailingDebounce ==
    [][C19_TimerCallbackRuns =>
          /\ C19_SinceRendered >= DebounceTicks
          /\ timerFires = 0
          /\ timerFires' = 1]_vars

\* the report rendered at time 0 and again before the timer of time 0 was due;
\* the one poll of the burst has started
C19_Witness ==
    /\ lastRendered > 0
    /\ lastRendered < DebounceTicks
    /\ ~renderedTimerRef
    /\ timerFires = 1
    /\ polls = 1

\* the rows of the mapping table for the column of triplet t
C21_Rows(t) ==
    {k \in 1..Len(fieldMappings) :
        /\ fieldMappings[k].powerbiTable = t[1]
        /\ fieldMappings[k].powerbiColumn = t[2]}

\* the canonical field of triplet t: the map field of the first row for its
\* column, or the column name when there is no row
C21_Field(t) ==
    IF C21_Rows(t) = {} THEN t[2]
    ELSE fieldMappings[CHOOSE k \in C21_Rows(t) :
                          \A j \in C21_Rows(t) : k <= j].arcgisField

\* e is a report-sourced entry for triplet t under the raw column name
C21_FallbackEntry(e, t) ==
    /\ e.field = t[2]
    /\ e.powerbiTable = t[1]
    /\ e.powerbiColumn = t[2]
    /\ e.source = "powerbi"
    /\ t[3] \in Range(e.values)

\* no triplet of another column has the column name of t as canonical field
C21_Alone(t, triplets) ==
    \A u \in triplets : C21_Field(u) = t[2] => (u[1] = t[1] /\ u[2] = t[2])

\* C21: for every triplet of a selection event whose (table, column) has no
\* mapping row, the snapshot written holds a report-sourced entry whose field
\* is the raw column name and whose table and column are the triplet's
C21_UnmappedFallback ==
    [][userEvents' < userEvents =>
          \A event \in SelectionEvents(AnyIdentityItems, AnyValuesItems) :
              (event.detail /\ handleDataSelected(event))
              => \A t \in C16_Triplets(event.dataPoints) :
                    C21_Rows(t) = {}
                    => \E i \in 1..Len(activeFilters') :
                          C21_FallbackEntry(activeFilters'[i], t)]_vars

\* C21 amended: the same for the triplets whose column name is not the
\* canonical field of a triplet of another column of the same event (such a
\* value is merged into the one entry of that field)
C21_UnmappedFallbackWhenAlone ==
    [][userEvents' < userEvents =>
          \A event \in SelectionEvents(AnyIdentityItems, AnyValuesItems) :
              (event.detail /\ handleDataSelected(event))
              => \A t \in C16_Triplets(event.dataPoints) :
                    (C21_Rows(t) = {} /\ C21_Alone(t, C16_Triplets(event.dataPoints)))
                    => \E i \in 1..Len(activeFilters') :
                          C21_FallbackEntry(activeFilters'[i], t)]_vars

\* before the map is ready the store holds the entry a selection produced for
\* the column State, which has no mapping row
C21_Witness ==
    /\ status = "loading"
    /\ writeLog = <<activeFilters>>
    /\ Len(activeFilters) = 1
    /\ \A k \in 1..Len(fieldMappings) : fieldMappings[k].powerbiColumn # "State"
    /\ C21_FallbackEntry(activeFilters[1], <<"NC_Permits", "State", ValPlain>>)

\* entry e is built from row m for a hit on a layer with this title and these
\* attributes
C22_FromRow(e, m, layerTitle, attrs) ==
    /\ m.arcgisLayerTitle = NoLayerTitle \/ m.arcgisLayerTitle = layerTitle
    /\ e.field = m.arcgisField
    /\ e.powerbiTable = m.powerbiTable
    /\ e.powerbiColumn = m.powerbiColumn
    /\ e.source = "arcgis"
    /\ IsPresent(attrs[m.arcgisField])
    /\ e.values = <<attrs[m.arcgisField]>>

\* C22: every entry a map click writes is built from a mapping row whose layer
\* title is unset or that of the hit layer: it has the row's map field, table
\* and column, the source tag of the map, and as its only value the feature's
\* non-null attribute for that field; nothing else is written
C22_ClickEntriesMapped ==
    [][clicks' < clicks =>
          \A response \in HitTestResults(AnyAttributeSets) :
              (/\ Len(OperationalHits(response)) > 0
               /\ clickHandler(response)
               /\ writeLog' # writeLog)
              => /\ Len(activeFilters') > 0
                 /\ \A i \in 1..Len(activeFilters') :
                       \E k \in 1..Len(fieldMappings) :
                           C22_FromRow(activeFilters'[i], fieldMappings[k],
                                       OperationalHits(response)[1].title,
                                       OperationalHits(response)[1].attributes.at)]_vars

\* with no report embedded (only clicks write) the store holds the one entry of
\* a click on a dentists feature whose attribute Lebel is 12, built from the
\* row of that layer
C22_Witness ==
    /\ ~reportRef
    /\ writeLog = <<activeFilters>>
    /\ activeFilters = <<FilterEntry("Lebel", "NC_Permits", "County Lebel",
                                     <<ValNum>>, "arcgis")>>

\* the position of a layer among the filterable layers of the web map
C23_Position(layerId) ==
    CHOOSE i \in 1..Len(filterableLayers) : filterableLayers[i].id = layerId

\* the layers an invocation has still to query are in layer order
C23_InLayerOrder(task) ==
    \A a, b \in 1..Len(task.queries) :
        a < b => C23_Position(task.queries[a].layer)
                    < C23_Position(task.queries[b].layer)

\* the zoomToFilteredArea invocations that are scanning / that have found
\* features and are about to highlight them
C23_Scanning(tasks) == Len(SelectSeq(tasks, LAMBDA t : t.stage = "query"))

C23_Found(tasks) == Len(SelectSeq(tasks, LAMBDA t : t.stage = "highlight"))

\* C23: an invocation scans the filterable layers in layer order; a step that
\* animates the view to a filtered extent takes one invocation out of the
\* scan, and a step that adds a selection highlight ends one invocation that
\* had left the scan, so that an invocation queries no layer after the one
\* that returned features and issues at most one animation and one highlight
C23_FirstSuccessWins ==
    [][/\ \A i \in 1..Len(zoomTasks') : C23_InLayerOrder(zoomTasks'[i])
       /\ (viewExtent' # viewExtent /\ viewExtent' # InitialExtent)
             => /\ C23_Scanning(zoomTasks') = C23_Scanning(zoomTasks) - 1
                /\ C23_Found(zoomTasks') = C23_Found(zoomTasks) + 1
       /\ Len(highlightHandlesRef') > Len(highlightHandlesRef)
             => /\ C23_Scanning(zoomTasks') = C23_Scanning(zoomTasks)
                /\ C23_Found(zoomTasks') = C23_Found(zoomTasks) - 1
                /\ Len(zoomTasks') = Len(zoomTasks) - 1
                /\ Len(highlightHandlesRef') = Len(highlightHandlesRef) + 1]_vars

\* the first of two filterable layers returned features and the view was
\* animated to them; the invocation is about to highlight and the second layer
\* has not been queried
C23_Witness ==
    /\ Len(zoomTasks) = 1
    /\ zoomTasks[1].stage = "highlight"
    /\ Len(zoomTasks[1].queries) = 2
    /\ viewExtent = FilteredExtent(zoomTasks[1].queries[1].layer,
                                   zoomTasks[1].queries[1].where)
    /\ highlightHandlesRef = <<>>

\* C24: a zoom query that rejects, returns no feature or returns features
\* without geometry (the view is not animated) leaves the predicates that are
\* set on the layers, and the predicate calls still pending, as they are: none
\* is reverted, the map stays ready and the store is not written
C24_QueryFailureKeepsFilters ==
    [][(zoomTasks' # zoomTasks /\ viewExtent' = viewExtent /\ ZoomQuerySettles)
          => /\ UNCHANGED <<layerViewFilter, layerViewCalls>>
             /\ status' = "ready"
             /\ UNCHANGED storeVars]_vars

\* the one report-sourced snapshot written was applied: its predicate is set on
\* a layer, and its zoom has ended without animation or highlight
C24_Witness ==
    /\ C14_WrittenTimes(1)
    /\ C14_Settled
    /\ mapApply.zoom
    /\ viewExtent = InitialExtent
    /\ highlightHandlesRef = <<>>
    /\ \E l \in LayerIds :
          /\ layerViewFilter[l] # NoWhere
          /\ layerViewFilter[l] = C14_Predicates(writeLog[1])[l]

C25_Settled == reportCalls \ reportCalls'

\* C25: a command of the report applier that settles, accepted or rejected, is
\* answered by no further command and no store write, and the widget's filters
\* after it are those of the settled command if it was accepted and the ones it
\* had otherwise; commands are issued, and the widget's filters change, at no
\* other step than an applier run for a store write and a settling command
C25_RejectionIsDropped ==
    [][/\ reportCalls' # reportCalls =>
             \/ /\ CommitsWrite
                /\ reportCalls' = reportCalls \cup Range(reportApply'.cmds)
             \/ /\ reportCalls' \subseteq reportCalls
                /\ Cardinality(C25_Settled) = 1
                /\ UNCHANGED storeVars
                /\ reportFilters' \in {reportFilters}
                                        \cup {c.filters : c \in C25_Settled}
       /\ reportFilters' # reportFilters => reportCalls' # reportCalls]_vars

\* a map click was written and applied, its setFilters command has settled and
\* the report still has no filter: the command was rejected, and nothing else
\* is pending
C25_Witness ==
    /\ Len(writeLog) = 1
    /\ Len(writeLog[1]) > 0
    /\ AllFrom(writeLog[1], "arcgis")
    /\ reportApply.cmds # <<>>
    /\ reportApply.cmds[1].cmd = "setFilters"
    /\ reportCalls = {}
    /\ reportFilters = <<>>
    /\ ~filtersDirty

\* this step runs the effects
C26_EffectsRun ==
    /\ filtersDirty \/ statusDirty
    /\ ~filtersDirty'
    /\ ~statusDirty'

\* C26: an effect run with no report instance issues no report command, and
\* one with a map that is not ready issues no layer-view call, starts no zoom
\* and leaves the map as it is; nothing is queued, since commands, calls and
\* zooms are only ever issued by an effect run whose widget is initialized
C26_NotReadyIssuesNothing ==
    [][/\ (C26_EffectsRun /\ ~reportRef) =>
             UNCHANGED <<reportCalls, reportFilters>>
       /\ (C26_EffectsRun /\ status # "ready") => UNCHANGED mapWidgetVars
       /\ ~(reportCalls' \subseteq reportCalls) =>
             C26_EffectsRun /\ filtersDirty /\ reportRef
       /\ (\/ ~(layerViewCalls' \subseteq layerViewCalls)
           \/ Len(zoomTasks') > Len(zoomTasks)) =>
             C26_EffectsRun /\ status = "ready"]_vars

\* a map click was written and the effects ran for it before the report was
\* embedded: no command is pending and the report has no filter
C26_Witness ==
    /\ ~reportRef
    /\ Len(writeLog) = 1
    /\ activeFilters = writeLog[1]
    /\ Len(activeFilters) > 0
    /\ ~filtersDirty
    /\ ~reportApply.ran
    /\ reportCalls = {}
    /\ reportFilters = <<>>

C27_Distinct(values) ==
    \A i, j \in 1..Len(values) : values[i] = values[j] => i = j

\* C27: no entry of the snapshot in the store, whichever extractor wrote it,
\* holds the same value twice
C27_ValuesDistinct ==
    \A i \in 1..Len(activeFilters) : C27_Distinct(activeFilters[i].values)

\* the store holds what a poll collected from a page filter that lists a value
\* twice
C27_Witness ==
    /\ Len(activeFilters) > 0
    /\ activeFilters = PolledFilters(pageFilters)
    /\ \E k \in 1..Len(pageFilters) :
          /\ pageFilters[k].filterType = "Basic"
          /\ ~C27_Distinct(pageFilters[k].values)

\* the clause of one mapping row for the values of an entry
C28_Clause(row, e) ==
    LET xs == [i \in 1..Len(e.values) |->
                  [v |-> ApplyTransform(row.transformValue, e.values[i])]]
    IN  IF Len(xs) = 1
        THEN <<row.arcgisField, " ", "=", " ">> \o C11_Literal(xs[1].v)
        ELSE <<row.arcgisField, " ", "I", "N", " ", "(">> \o C11_List(xs) \o <<")">>

\* one clause per row of the table, from row r on, that serves entry e on fl
RECURSIVE C28_RowClauses(_, _, _)
C28_RowClauses(fl, e, r) ==
    IF r > Len(fieldMappings) THEN <<>>
    ELSE (IF r \in C10_Rows(fl, e) THEN <<C28_Clause(fieldMappings[r], e)>>
          ELSE <<>>)
         \o C28_RowClauses(fl, e, r + 1)

RECURSIVE C28_Clauses(_, _)
C28_Clauses(fl, filters) ==
    IF filters = <<>> THEN <<>>
    ELSE C28_RowClauses(fl, Head(filters), 1) \o C28_Clauses(fl, Tail(filters))

RECURSIVE C28_AndJoin(_)
C28_AndJoin(clauses) ==
    IF Len(clauses) = 0 THEN <<>>
    ELSE IF Len(clauses) = 1 THEN clauses[1]
    ELSE clauses[1] \o <<" ", "A", "N", "D", " ">> \o C28_AndJoin(Tail(clauses))

\* C28: when the map effect runs on a non-empty report-sourced set, the
\* predicate it issues for each filterable layer is the AND-join of one clause
\* per mapping row that matches an entry's table and column and whose layer
\* title is unset or the layer's, each clause on that row's own field
C28_PerLayerPredicate ==
    [][(C26_EffectsRun /\ status = "ready" /\ Len(PbiFilters(activeFilters)) > 0)
          => \A k \in 1..Len(filterableLayers) :
                LayerViewCall(filterableLayers[k].id,
                              C28_AndJoin(C28_Clauses(filterableLayers[k],
                                                      PbiFilters(activeFilters))))
                    \in mapApply'.calls]_vars

\* C29: a layer-view callback that settles sets its layer's predicate to the
\* clause it was issued with, and a zoom query that animates the view sets the
\* extent of its own features, whichever effect run issued them and whatever
\* was issued since; predicates change at no other step, and the extent only
\* there and when an effect run on an empty set restores it
C29_LastSettledWins ==
    [][/\ \A c \in layerViewCalls \ layerViewCalls' :
             layerViewFilter' = [layerViewFilter EXCEPT ![c.layer] = c.where]
       /\ layerViewFilter' # layerViewFilter =>
             layerViewCalls' # layerViewCalls /\ layerViewCalls' \subseteq layerViewCalls
       /\ viewExtent' # viewExtent =>
             \/ C26_EffectsRun /\ viewExtent' = InitialExtent
             \/ \E i \in 1..Len(zoomTasks) :
                   /\ zoomTasks[i].stage = "query"
                   /\ zoomTasks'[i].stage = "highlight"
                   /\ viewExtent' = FilteredExtent(Head(zoomTasks[i].queries).layer,
                                                   Head(zoomTasks[i].queries).where)]_vars

\* two different report-sourced snapshots were written one after the other and
\* applied, everything has settled, and a layer shows the predicate of the
\* first while the view shows the extent of the second
C29_Witness ==
    /\ Len(writeLog) = 2
    /\ Len(writeLog[1]) > 0 /\ AllFrom(writeLog[1], "powerbi")
    /\ Len(writeLog[2]) > 0 /\ AllFrom(writeLog[2], "powerbi")
    /\ activeFilters = writeLog[2]
    /\ C14_Settled
    /\ \E l \in FilterableIds :
          /\ layerViewFilter[l] = C14_Predicates(writeLog[1])[l]
          /\ layerViewFilter[l] # C14_Predicates(writeLog[2])[l]
          /\ layerViewFilter[l] # NoWhere
          /\ viewExtent = FilteredExtent(l, C14_Predicates(writeLog[2])[l])

\* C30: all entries of the snapshot in the store carry the same source tag, so
\* the map-sourced entries the report applier selects and the report-sourced
\* entries the map applier selects are never both non-empty
C30_SourceHomogeneous ==
    /\ \A i, j \in 1..Len(activeFilters) :
          activeFilters[i].source = activeFilters[j].source
    /\ \/ Len(SelectSeq(activeFilters, LAMBDA f : f.source = "arcgis")) = 0
       \/ Len(PbiFilters(activeFilters)) = 0

\* a map click has written its entries over a report-sourced snapshot
C30_Witness ==
    /\ Len(writeLog) = 2
    /\ Len(writeLog[1]) > 0 /\ AllFrom(writeLog[1], "powerbi")
    /\ Len(writeLog[2]) > 0 /\ AllFrom(writeLog[2], "arcgis")
    /\ activeFilters = writeLog[2]

\* C31: the effect run that follows the map becoming ready applies the
\* report-sourced snapshot the store holds at that moment: it issues the
\* predicate of every filterable layer and starts the zoom, and the store is
\* not written
C31_ReadyAppliesCurrent ==
    [][(statusDirty /\ C26_EffectsRun /\ status = "ready"
        /\ Len(PbiFilters(activeFilters)) > 0)
          => /\ UNCHANGED <<activeFilters, lastWritten, writeLog>>
             /\ mapApply'.ran
             /\ \A l \in FilterableIds :
                   LayerViewCall(l, C14_Predicates(PbiFilters(activeFilters))[l])
                       \in layerViewCalls'
             /\ ZoomQueries(PbiFilters(activeFilters)) # <<>> =>
                   /\ mapApply'.zoom
                   /\ zoomTasks' =
                         Append(zoomTasks,
                                ZoomTask("query",
                                         ZoomQueries(PbiFilters(activeFilters))))]_vars

\* the map has become ready while the store holds a report-sourced snapshot
\* that the effects found the map not ready for: nothing was issued for it, and
\* the effect run for the change of status is due
C31_Witness ==
    /\ status = "ready"
    /\ statusDirty
    /\ ~filtersDirty
    /\ Len(writeLog) = 1
    /\ activeFilters = writeLog[1]
    /\ Len(activeFilters) > 0
    /\ AllFrom(activeFilters, "powerbi")
    /\ mapApply = NoMapApply
    /\ layerViewCalls = {}
    /\ zoomTasks = <<>>

\* no entry of the set has a mapping row for its table and column on layer fl
C32_Unserved(fl, filters) ==
    \A i \in 1..Len(filters) : C10_Rows(fl, filters[i]) = {}

\* the queries of the zoom this step starts
C32_Started ==
    IF Len(zoomTasks') > Len(zoomTasks)
    THEN Range(zoomTasks'[Len(zoomTasks')].queries)
    ELSE {}

\* C32: an entry without a mapping row for its table and column on a layer
\* adds no clause for that layer; an effect run on a non-empty report-sourced
\* set that has no clause at all for a filterable layer issues the removal of
\* that layer's predicate and starts no zoom query on the layer, and no zoom
\* query or highlight ever stands for a layer without a clause
C32_UnmappedContributesNothing ==
    [][/\ \A i \in 1..Len(activeFilters) : \A k \in 1..Len(filterableLayers) :
             C10_Rows(filterableLayers[k], activeFilters[i]) = {}
                => ClausesOf(filterableLayers[k], activeFilters[i]) = <<>>
       /\ (C26_EffectsRun /\ status = "ready" /\ Len(PbiFilters(activeFilters)) > 0)
             => \A k \in 1..Len(filterableLayers) :
                   C32_Unserved(filterableLayers[k], PbiFilters(activeFilters))
                      => /\ LayerViewCall(filterableLayers[k].id, NoWhere)
                               \in mapApply'.calls
                         /\ \A q \in C32_Started : q.layer # filterableLayers[k].id
       /\ \A i \in 1..Len(zoomTasks') : \A q \in Range(zoomTasks'[i].queries) :
             q.where # NoWhere
       /\ \A h \in Range(highlightHandlesRef') : h.where # NoWhere]_vars

\* the effects have run on a report-sourced snapshot that has a clause for one
\* filterable layer and none for another: the second has its predicate removed
\* and the zoom queries the first only
C32_Witness ==
    /\ Len(activeFilters) > 0
    /\ AllFrom(activeFilters, "powerbi")
    /\ ~filtersDirty
    /\ mapApply.ran
    /\ mapApply.zoom
    /\ \E k, m \in 1..Len(filterableLayers) :
          /\ C32_Unserved(filterableLayers[k], activeFilters)
          /\ LayerViewCall(filterableLayers[k].id, NoWhere) \in mapApply.calls
          /\ ~C32_Unserved(filterableLayers[m], activeFilters)
          /\ \E c \in mapApply.calls :
                c.layer = filterableLayers[m].id /\ c.where # NoWhere

\* C33: a poll that settles writes the entries it collected from the page
\* filters, or nothing; when the page has no filter, or no basic filter with a
\* table, a column and a value that is not null, it leaves the store as it is
C33_EmptyPollKeepsStore ==
    [][polls' < polls =>
          /\ PolledFilters(pageFilters) = <<>> => UNCHANGED storeVars
          /\ \/ UNCHANGED storeVars
             \/ WritesSnapshot(PolledFilters(pageFilters))]_vars

\* the store holds the two values a poll collected from a slicer, the slicer
\* selection has been removed since, and the poll that followed the removal has
\* settled
C33_Witness ==
    /\ reportRef
    /\ Len(activeFilters) = 1
    /\ Len(activeFilters[1].values) = 2
    /\ \E pf \in PageFilterSets : activeFilters = PolledFilters(pf)
    /\ PolledFilters(pageFilters) = <<>>
    /\ ~renderedTimerRef
    /\ polls = 0

\* graphic g, of a layer registered at load, is the first such graphic of the
\* response
C34_FirstOperational(response, k) ==
    /\ response[k].layerId \in {AllFeatureLayers[i].id : i \in 1..Len(AllFeatureLayers)}
    /\ \A j \in 1..(k - 1) : C17_NoOperationalGraphic(<<response[j]>>)

\* the graphic has no attributes, or no attribute that a mapping row of its
\* layer names is present
C34_YieldsNoEntry(g) ==
    \/ ~g.attributes.present
    \/ \A r \in 1..Len(fieldMappings) :
          fieldMappings[r].arcgisLayerTitle \in {NoLayerTitle, g.title}
             => ~IsPresent(g.attributes.at[fieldMappings[r].arcgisField])

\* C34: a click whose first operational graphic has no attributes, belongs to
\* a layer for which no mapping row applies, or has none of the mapped
\* attributes, leaves the store as it is
C34_NoEntryClickKeepsStore ==
    [][clicks' < clicks =>
          \A response \in HitTestResults(AttributeSets) :
              (/\ \E k \in 1..Len(response) :
                     /\ C34_FirstOperational(response, k)
                     /\ C34_YieldsNoEntry(response[k])
               /\ clickHandler(response))
                  => UNCHANGED storeVars]_vars

\* with no report embedded (only clicks write) two clicks have settled and the
\* store holds the entries of the one write there was: the other click hit a
\* feature that yielded no entry
C34_Witness ==
    /\ ~reportRef
    /\ userEvents = 0
    /\ clicks = 0
    /\ Len(writeLog) = 1
    /\ activeFilters = writeLog[1]
    /\ Len(activeFilters) > 0
    /\ AllFrom(activeFilters, "arcgis")

\* C35: every hover highlight handle that was created and not removed is the
\* one hoverHighlightRef holds, so at most one is live
C35_OneHoverHighlight ==
    hoverHighlights = IF hoverHighlightRef # NoGraphic THEN 1 ELSE 0

\* C36: a poll that was in flight when a selection event wrote the store does
\* not replace what the event wrote: once it has settled the snapshot is still
\* the one of the later user event
C36_WritesFollowEvents ==
    [][(polls' < polls /\ selectedSincePoll) => activeFilters' = activeFilters]_vars

====
